---- MODULE Spec2Model ----
(***************************************************************************)
(* A model of uDis, a MicroPython bytecode decompiler.                     *)
(*                                                                         *)
(*   src/main.py        main(), uDecompiler.get_disassembly / decompile /  *)
(*                      pass_0 (the stack-machine lifter)                  *)
(*   src/Decompiler.py  uDecompiler.pass_0 (the basic-block splitter),     *)
(*                      pass_1 / do_cb / do_bb (the second lifter)         *)
(*                                                                         *)
(* Python strings are sequences of one-character strings, so that slicing  *)
(* (operands[1:-1]), split() and int() are computed and not assumed.       *)
(* AST nodes are records tagged by "t"; every node carries the identity    *)
(* "oid" it got when it was constructed, because the code compares and     *)
(* hashes nodes by identity.  ast.alias objects are mutated after they are *)
(* shared (asname), so they live in a heap and nodes refer to them.        *)
(***************************************************************************)
EXTENDS Integers, Sequences, FiniteSets, TLC

(***************************************************************************)
(* Bounds of the model.                                                    *)
(***************************************************************************)
\* longest arbitrary instruction sequence of a code block
MaxLen == 2
\* deepest nesting of pass_0 calls explored (stands for the interpreter's
\* recursion limit)
MaxDepth == 3
\* most directory entries main() walks
MaxFiles == 2
\* longest arbitrary instruction sequence given to the basic-block splitter
MaxDLen == 3
\* largest jump target of those sequences
MaxTarget == 4
\* most runs of pass_1 on one decompiler
MaxRuns == 2

(***************************************************************************)
(* Python strings.                                                         *)
(***************************************************************************)
Digits == <<"0", "1", "2", "3", "4", "5", "6", "7", "8", "9">>

IsDigit(c) == \E i \in 1..10 : Digits[i] = c

DigitVal(c) == (CHOOSE i \in 1..10 : Digits[i] = c) - 1

\* s[1:-1]
Strip1(s) == IF Len(s) <= 2 THEN <<>> ELSE SubSeq(s, 2, Len(s) - 1)

\* s[1:]
Drop1(s) == IF Len(s) <= 1 THEN <<>> ELSE SubSeq(s, 2, Len(s))

RECURSIVE NatOf(_)
NatOf(s) == IF s = <<>> THEN 0 ELSE 10 * NatOf(SubSeq(s, 1, Len(s) - 1)) + DigitVal(s[Len(s)])

AllDigits(s) == s # <<>> /\ \A i \in 1..Len(s) : IsDigit(s[i])

\* int(s) succeeds
IsInt(s) == \/ AllDigits(s)
            \/ Len(s) >= 2 /\ s[1] \in {"-", "+"} /\ AllDigits(Drop1(s))

\* int(s), for IsInt(s)
IntOf(s) == IF s[1] = "-" THEN 0 - NatOf(Drop1(s))
            ELSE IF s[1] = "+" THEN NatOf(Drop1(s))
            ELSE NatOf(s)

RECURSIVE StrOfNat(_)
StrOfNat(n) == IF n < 10 THEN <<Digits[n + 1]>> ELSE StrOfNat(n \div 10) \o <<Digits[(n % 10) + 1]>>

\* str(n)
StrOfInt(n) == IF n < 0 THEN <<"-">> \o StrOfNat(0 - n) ELSE StrOfNat(n)

\* s.split(c): the fields between the occurrences of the character c
RECURSIVE SplitOn(_, _)
SplitOn(s, c) ==
    IF \A i \in 1..Len(s) : s[i] # c THEN <<s>>
    ELSE LET k == CHOOSE i \in 1..Len(s) : s[i] = c /\ \A j \in 1..(i - 1) : s[j] # c
         IN  <<SubSeq(s, 1, k - 1)>> \o SplitOn(SubSeq(s, k + 1, Len(s)), c)

\* s.split(): the non-empty fields between runs of blanks
SplitWs(s) == SelectSeq(SplitOn(s, " "), LAMBDA f : f # <<>>)

\* c.join(parts)
RECURSIVE Join(_, _)
Join(parts, c) ==
    IF parts = <<>> THEN <<>>
    ELSE IF Len(parts) = 1 THEN parts[1]
    ELSE parts[1] \o <<c>> \o Join(Tail(parts), c)

(***************************************************************************)
(* Python values and AST nodes (the ast module's node classes).            *)
(***************************************************************************)
PyInt(n) == [k |-> "int", v |-> n]
PyBool(b) == [k |-> "bool", v |-> b]
PyNone == [k |-> "none"]
PyStr(s) == [k |-> "str", v |-> s]
\* a reference to a node object
PyNode(n) == [k |-> "node", n |-> n]

PyNum(a) == IF a.k = "int" THEN a.v ELSE IF a.v THEN 1 ELSE 0

\* Python's a == b: numbers by value (True == 1), strings by value, node
\* objects by identity (ast.AST defines no __eq__)
PyEq(a, b) ==
    IF a.k = "node" \/ b.k = "node" THEN a.k = b.k /\ a.n.oid = b.n.oid
    ELSE IF a.k \in {"int", "bool"} /\ b.k \in {"int", "bool"} THEN PyNum(a) = PyNum(b)
    ELSE a.k = b.k /\ (a.k = "none" \/ a.v = b.v)

Constant(o, v) == [t |-> "Constant", oid |-> o, value |-> v]
Name(o, s, c) == [t |-> "Name", oid |-> o, id |-> s, ctx |-> c]
TupleN(o, l) == [t |-> "Tuple", oid |-> o, elts |-> l]
ListN(o, l) == [t |-> "List", oid |-> o, elts |-> l]
Import(o, a) == [t |-> "Import", oid |-> o, names |-> a]
ImportFrom(o, m, a, lv) == [t |-> "ImportFrom", oid |-> o, module |-> m, names |-> a, level |-> lv]
FunctionDef(o, n, a, b) ==
    [t |-> "FunctionDef", oid |-> o, name |-> n, args |-> a, body |-> b]
ClassDef(o, n, b) == [t |-> "ClassDef", oid |-> o, name |-> n, body |-> b]
Call(o, f, a, kw) == [t |-> "Call", oid |-> o, func |-> f, args |-> a, keywords |-> kw]
Attribute(o, v, a, c) == [t |-> "Attribute", oid |-> o, value |-> v, attr |-> a, ctx |-> c]
Subscript(o, v, s, c) == [t |-> "Subscript", oid |-> o, value |-> v, slice |-> s, ctx |-> c]
Compare(o, l, ops, cs) == [t |-> "Compare", oid |-> o, left |-> l, ops |-> ops, comparators |-> cs]
BinOp(o, l, op, r) == [t |-> "BinOp", oid |-> o, left |-> l, op |-> op, right |-> r]
Assign(tg, v) == [t |-> "Assign", targets |-> <<tg>>, value |-> v]
Return(v) == [t |-> "Return", value |-> v]
Keyword(a, v) == [t |-> "keyword", arg |-> a, value |-> v]
\* an ast.alias object, kept in the heap
Alias(n) == [name |-> n, asname |-> PyNone]

\* the node classes of the operand stack that have an attribute "value"
HasValue(n) == n.t \in {"Constant", "Attribute", "Subscript"}

\* n.value
ValueOf(n) == IF n.t = "Constant" THEN n.value ELSE PyNode(n.value)

HasNames(n) == n.t \in {"Import", "ImportFrom"}

HasBody(n) == n.t \in {"FunctionDef", "ClassDef"}

(***************************************************************************)
(* main.Stack: data[0] is the top; here index 1 is the top.                *)
(***************************************************************************)
Push(s, v) == <<v>> \o s

\* the stack after pop()
Pop(s) == Tail(s)

\* peek(i)
Peek(s, i) == s[i + 1]

\* [self.stack.pop() for _ in range(n)]: the popped entries, top first
PopN(s, n) == IF n <= 0 THEN <<>> ELSE SubSeq(s, 1, n)

\* the stack after n pops
DropN(s, n) == IF n <= 0 THEN s ELSE SubSeq(s, n + 1, Len(s))

(***************************************************************************)
(* The lifter of src/main.py, uDecompiler.pass_0, one instruction at a     *)
(* time.  An instruction is [offset, opcode, operands].  The operators     *)
(* below take the instruction and the machine                              *)
(*   m = [stack, aux, tree, heap, nid, args, next]                         *)
(* (self.stack.data, aux_stack.data, tree, the alias objects, the number   *)
(* of node objects made so far, cb.args, the opcode of the following       *)
(* instruction or "None") and give the machine after the instruction with  *)
(*   ctl = "next"  : go on with the following instruction                  *)
(*   ctl = "break" : the loop is left (break)                              *)
(*   ctl = "raise" : a Python exception err propagates out of pass_0; the  *)
(*                   fields are then those before the instruction, since   *)
(*                   nothing reads the decompiler after the exception.     *)
(***************************************************************************)
Res(st, ax, tr, hp, n, ctl, e) ==
    [stack |-> st, aux |-> ax, tree |-> tr, heap |-> hp, nid |-> n, ctl |-> ctl, err |-> e]

Go(m, st, ax, tr, n) == Res(st, ax, tr, m.heap, n, "next", "")

Exc(m, e) == Res(m.stack, m.aux, m.tree, m.heap, m.nid, "raise", e)

\* the text "BUILD_CLASS"
BuildClassText == <<"B", "U", "I", "L", "D", "_", "C", "L", "A", "S", "S">>

\* the text "local_"
LocalPrefix == <<"l", "o", "c", "a", "l", "_">>

Do_LOAD_CONST_SMALL_INT(ins, m) ==
    IF ~IsInt(ins.operands) THEN Exc(m, "ValueError")
    ELSE Go(m, Push(m.stack, Constant(m.nid + 1, PyInt(IntOf(ins.operands)))),
            m.aux, m.tree, m.nid + 1)

Do_LOAD_CONST_NONE(ins, m) ==
    Go(m, Push(m.stack, Constant(m.nid + 1, PyNone)), m.aux, m.tree, m.nid + 1)

Do_LOAD_CONST_TRUE(ins, m) ==
    Go(m, Push(m.stack, Constant(m.nid + 1, PyBool(TRUE))), m.aux, m.tree, m.nid + 1)

Do_LOAD_CONST_FALSE(ins, m) ==
    Go(m, Push(m.stack, Constant(m.nid + 1, PyBool(FALSE))), m.aux, m.tree, m.nid + 1)

Do_LOAD_CONST_STRING(ins, m) ==
    Go(m, Push(m.stack, Constant(m.nid + 1, PyStr(Strip1(ins.operands)))),
       m.aux, m.tree, m.nid + 1)

Do_LOAD_CONST_OBJ(ins, m) ==
    LET data == Join(Tail(SplitOn(ins.operands, "=")), "=")
    IN  Go(m, Push(m.stack, Constant(m.nid + 1, PyStr(Strip1(data)))),
           m.aux, m.tree, m.nid + 1)

Do_LOAD_NAME(ins, m) ==
    Go(m, Push(m.stack, Name(m.nid + 1, ins.operands, "Load")), m.aux, m.tree, m.nid + 1)

Do_LOAD_GLOBAL(ins, m) ==
    Go(m, Push(m.stack, Name(m.nid + 1, ins.operands, "Load")), m.aux, m.tree, m.nid + 1)

\* aux_stack.push(v) for every v of vals, in order
RECURSIVE PushAll(_, _)
PushAll(s, vals) == IF vals = <<>> THEN s ELSE PushAll(Push(s, Head(vals)), Tail(vals))

Do_IMPORT_NAME(ins, m) ==
    IF Len(m.stack) < 2 THEN Exc(m, "IndexError")
    ELSE
      LET fromlist == Peek(m.stack, 0)
          rest == DropN(m.stack, 2)
          mod == PyStr(Strip1(ins.operands))
          h == Len(m.heap)
      IN  IF fromlist.t = "Constant" /\ fromlist.value.k = "none" THEN
            Res(Push(rest, Import(m.nid + 1, <<h + 1>>)),
                Push(m.aux, mod), m.tree,
                Append(m.heap, Alias(mod)), m.nid + 1, "next", "")
          ELSE IF fromlist.t = "Tuple" THEN
            IF \E i \in 1..Len(fromlist.elts) : ~HasValue(fromlist.elts[i])
            THEN Exc(m, "AttributeError")
            ELSE
              LET vals == [i \in 1..Len(fromlist.elts) |-> ValueOf(fromlist.elts[i])]
                  refs == [i \in 1..Len(vals) |-> h + i]
              IN  Res(Push(rest, Import(m.nid + 1, refs)),
                      Push(PushAll(m.aux, vals), mod), m.tree,
                      m.heap \o [i \in 1..Len(vals) |-> Alias(vals[i])],
                      m.nid + 1, "next", "")
          ELSE Go(m, rest, m.aux, m.tree, m.nid)

Do_IMPORT_FROM(ins, m) ==
    IF m.stack = <<>> THEN Exc(m, "IndexError")
    ELSE LET i == Peek(m.stack, 0)
         IN  IF i.t = "Import" THEN
               IF m.aux = <<>> THEN Exc(m, "IndexError")
               ELSE Go(m, Push(m.stack, ImportFrom(m.nid + 1, Peek(m.aux, 0), i.names, 0)),
                       Pop(m.aux), m.tree, m.nid + 1)
             ELSE Go(m, m.stack, m.aux, m.tree, m.nid)

\* the alias the loop "for x in names: if x.name == orig_name: a = x" ends
\* with: the last one that matches, 0 for None
LastMatch(heap, names, orig) ==
    LET hits == {i \in 1..Len(names) : PyEq(heap[names[i]].name, orig)}
    IN  IF hits = {} THEN 0 ELSE names[CHOOSE i \in hits : \A j \in hits : j <= i]

\* not the code: the alias is renamed whether or not the names differ
STORE_NAME_AlwaysRenames(ins, m) ==
    IF m.aux = <<>> \/ m.stack = <<>> THEN Exc(m, "IndexError")
    ELSE IF ~HasNames(Peek(m.stack, 0)) THEN Exc(m, "AttributeError")
    ELSE LET a == LastMatch(m.heap, Peek(m.stack, 0).names, Peek(m.aux, 0))
         IN  IF a = 0 THEN Exc(m, "AttributeError")
             ELSE Res(Pop(m.stack), Pop(m.aux), Append(m.tree, Peek(m.stack, 0)),
                      [m.heap EXCEPT ![a].asname = PyStr(ins.operands)], m.nid, "next", "")

\* not the code: a ClassDef on top of the operand stack is appended again
STORE_NAME_AppendsClassDef(ins, m) ==
    IF m.aux # <<>> THEN STORE_NAME_AlwaysRenames(ins, m)
    ELSE IF m.stack = <<>> THEN Exc(m, "IndexError")
    ELSE LET top == Peek(m.stack, 0)
         IN  IF top.t \in {"FunctionDef", "ClassDef"} THEN
               Go(m, Pop(m.stack), m.aux, Append(m.tree, top), m.nid)
             ELSE
               Go(m, Pop(m.stack), m.aux,
                  Append(m.tree, Assign(Name(m.nid + 1, ins.operands, "Store"), top)),
                  m.nid + 1)

Do_STORE_NAME(ins, m) ==
    IF m.aux # <<>> THEN
      LET orig == Peek(m.aux, 0)
          ax == Pop(m.aux)
          rename == ~PyEq(orig, PyStr(ins.operands))
          a == LastMatch(m.heap, Peek(m.stack, 0).names, orig)
          hp == IF rename THEN [m.heap EXCEPT ![a].asname = PyStr(ins.operands)] ELSE m.heap
      IN  IF rename /\ m.stack = <<>> THEN Exc(m, "IndexError")
          ELSE IF rename /\ ~HasNames(Peek(m.stack, 0)) THEN Exc(m, "AttributeError")
          ELSE IF rename /\ a = 0 THEN Exc(m, "AttributeError")
          ELSE IF ax = <<>> THEN
            IF m.stack = <<>> THEN Exc(m, "IndexError")
            ELSE Res(Pop(m.stack), ax, Append(m.tree, Peek(m.stack, 0)), hp, m.nid, "next", "")
          ELSE Res(m.stack, ax, m.tree, hp, m.nid, "next", "")
    ELSE
      IF m.stack = <<>> THEN Exc(m, "IndexError")
      ELSE LET top == Peek(m.stack, 0)
           IN  IF top.t = "FunctionDef" THEN
                 Go(m, Pop(m.stack), m.aux, Append(m.tree, top), m.nid)
               ELSE IF top.t = "ClassDef" THEN
                 Go(m, Pop(m.stack), m.aux, m.tree, m.nid)
               ELSE
                 Go(m, Pop(m.stack), m.aux,
                    Append(m.tree, Assign(Name(m.nid + 1, ins.operands, "Store"), top)),
                    m.nid + 1)

Do_BUILD_TUPLE(ins, m) ==
    IF ~IsInt(ins.operands) THEN Exc(m, "ValueError")
    ELSE LET n == IntOf(ins.operands)
         IN  IF Len(m.stack) < n THEN Exc(m, "IndexError")
             ELSE Go(m, Push(DropN(m.stack, n), TupleN(m.nid + 1, PopN(m.stack, n))),
                     m.aux, m.tree, m.nid + 1)

Do_BUILD_LIST(ins, m) ==
    IF ~IsInt(ins.operands) THEN Exc(m, "ValueError")
    ELSE LET n == IntOf(ins.operands)
         IN  IF Len(m.stack) < n THEN Exc(m, "IndexError")
             ELSE Go(m, Push(DropN(m.stack, n), ListN(m.nid + 1, PopN(m.stack, n))),
                     m.aux, m.tree, m.nid + 1)

Do_POP_TOP(ins, m) ==
    IF m.stack = <<>> THEN Exc(m, "IndexError")
    ELSE Go(m, Pop(m.stack), m.aux, m.tree, m.nid)

Do_LOAD_BUILD_CLASS(ins, m) ==
    Go(m, m.stack, Push(m.aux, PyStr(BuildClassText)), m.tree, m.nid)

Do_RETURN_VALUE(ins, m) ==
    IF m.stack = <<>> THEN Exc(m, "IndexError")
    ELSE Go(m, Pop(m.stack), m.aux, Append(m.tree, Return(Peek(m.stack, 0))), m.nid)

\* int(parts[i].split('=')[1]) of "n=<p> nkw=<q>": the number, or the
\* exception the expression raises
CountField(parts, i) ==
    IF Len(parts) < i THEN [ok |-> FALSE, err |-> "IndexError"]
    ELSE LET f == SplitOn(parts[i], "=")
         IN  IF Len(f) < 2 THEN [ok |-> FALSE, err |-> "IndexError"]
             ELSE IF ~IsInt(f[2]) THEN [ok |-> FALSE, err |-> "ValueError"]
             ELSE [ok |-> TRUE, v |-> IntOf(f[2])]

Max0(n) == IF n < 0 THEN 0 ELSE n

\* kwargs[key] = value on a dict keyed by node objects (hashed by identity),
\* kept as the list of its items in insertion order
DictSet(d, key, val) ==
    IF \E i \in 1..Len(d) : d[i].key.oid = key.oid
    THEN [i \in 1..Len(d) |-> IF d[i].key.oid = key.oid THEN [key |-> d[i].key, value |-> val]
                                                       ELSE d[i]]
    ELSE Append(d, [key |-> key, value |-> val])

\* for _ in range(q): kwargs[self.stack.pop()] = self.stack.pop()
\* (the right-hand side is evaluated first: the value is the first pop)
RECURSIVE KwDict(_, _, _)
KwDict(s, q, d) ==
    IF q <= 0 THEN d ELSE KwDict(DropN(s, 2), q - 1, DictSet(d, s[2], s[1]))

\* for _ in range(q): val = pop(); kwargs.append(keyword(pop().value, val))
RECURSIVE KwList(_, _)
KwList(s, q) ==
    IF q <= 0 THEN <<>> ELSE <<Keyword(ValueOf(s[2]), s[1])>> \o KwList(DropN(s, 2), q - 1)

Do_CALL_FUNCTION(ins, m) ==
    IF m.aux # <<>> /\ PyEq(Peek(m.aux, 0), PyStr(BuildClassText)) THEN
      IF Len(m.stack) < 2 THEN Exc(m, "IndexError")
      ELSE LET name == Peek(m.stack, 0)
               cls == Peek(m.stack, 1)
           IN  IF ~HasValue(name) \/ ~HasBody(cls) THEN Exc(m, "AttributeError")
               ELSE LET c == ClassDef(m.nid + 1, ValueOf(name), cls.body)
                    IN  Go(m, Push(DropN(m.stack, 2), c), Pop(m.aux),
                           Append(m.tree, c), m.nid + 1)
    ELSE
      LET parts == SplitWs(ins.operands)
          pn == CountField(parts, 1)
          pk == CountField(parts, 2)
      IN  IF ~pn.ok THEN Exc(m, pn.err)
          ELSE IF ~pk.ok THEN Exc(m, pk.err)
          ELSE
            LET n == Max0(pn.v)
                q == Max0(pk.v)
            IN  IF Len(m.stack) < 2 * q + n + 1 THEN Exc(m, "IndexError")
                ELSE
                  LET kwargs == KwDict(m.stack, q, <<>>)
                      s1 == DropN(m.stack, 2 * q)
                      args == PopN(s1, n)
                      s2 == DropN(s1, n)
                      c == Call(m.nid + 1, Peek(s2, 0), args, kwargs)
                  IN  IF m.next = "None" THEN Exc(m, "AttributeError")
                      ELSE Go(m, Push(Pop(s2), c), m.aux,
                              IF m.next = "POP_TOP" THEN Append(m.tree, c) ELSE m.tree,
                              m.nid + 1)

Do_CALL_METHOD(ins, m) ==
    LET parts == SplitWs(ins.operands)
        pn == CountField(parts, 1)
        pk == CountField(parts, 2)
    IN  IF ~pn.ok THEN Exc(m, pn.err)
        ELSE IF ~pk.ok THEN Exc(m, pk.err)
        ELSE
          LET n == Max0(pn.v)
              q == Max0(pk.v)
          IN  IF \E j \in 1..q : Len(m.stack) < 2 * j THEN Exc(m, "IndexError")
              ELSE IF \E j \in 1..q : ~HasValue(m.stack[2 * j]) THEN Exc(m, "AttributeError")
              ELSE IF Len(m.stack) < 2 * q + n + 1 THEN Exc(m, "IndexError")
              ELSE
                LET kwargs == KwList(m.stack, q)
                    s1 == DropN(m.stack, 2 * q)
                    args == PopN(s1, n)
                    s2 == DropN(s1, n)
                    c == Call(m.nid + 1, Peek(s2, 0), args, kwargs)
                IN  IF m.next = "None" THEN Exc(m, "AttributeError")
                    ELSE Go(m, Push(Pop(s2), c), m.aux,
                            IF m.next = "POP_TOP" THEN Append(m.tree, c) ELSE m.tree,
                            m.nid + 1)

Do_LOAD_METHOD(ins, m) ==
    IF m.stack = <<>> THEN Exc(m, "IndexError")
    ELSE Go(m, Push(Pop(m.stack), Attribute(m.nid + 1, Peek(m.stack, 0), ins.operands, "None")),
            m.aux, m.tree, m.nid + 1)

\* the name LOAD_FAST / STORE_FAST n stands for: cb.args[n] when
\* n < len(cb.args) (a negative n indexes from the end), else local_<n-len>
FastName(args, n) ==
    IF n < Len(args) THEN
      IF n >= 0 THEN [ok |-> TRUE, v |-> args[n + 1]]
      ELSE IF 0 - n <= Len(args) THEN [ok |-> TRUE, v |-> args[Len(args) + n + 1]]
      ELSE [ok |-> FALSE]
    ELSE [ok |-> TRUE, v |-> LocalPrefix \o StrOfInt(n - Len(args))]

Do_LOAD_FAST(ins, m) ==
    IF ~IsInt(ins.operands) THEN Exc(m, "ValueError")
    ELSE LET f == FastName(m.args, IntOf(ins.operands))
         IN  IF ~f.ok THEN Exc(m, "IndexError")
             ELSE Go(m, Push(m.stack, Name(m.nid + 1, f.v, "Load")), m.aux, m.tree, m.nid + 1)

Do_STORE_FAST(ins, m) ==
    IF ~IsInt(ins.operands) THEN Exc(m, "ValueError")
    ELSE LET f == FastName(m.args, IntOf(ins.operands))
         IN  IF ~f.ok \/ m.stack = <<>> THEN Exc(m, "IndexError")
             ELSE Go(m, Pop(m.stack), m.aux,
                     Append(m.tree, Assign(Name(m.nid + 1, f.v, "Store"), Peek(m.stack, 0))),
                     m.nid + 1)

Do_LOAD_ATTR(ins, m) ==
    IF m.stack = <<>> THEN Exc(m, "IndexError")
    ELSE Go(m, Push(Pop(m.stack), Attribute(m.nid + 1, Peek(m.stack, 0), ins.operands, "Load")),
            m.aux, m.tree, m.nid + 1)

Do_LOAD_SUBSCR(ins, m) ==
    IF Len(m.stack) < 2 THEN Exc(m, "IndexError")
    ELSE Go(m, Push(DropN(m.stack, 2),
                    Subscript(m.nid + 1, Peek(m.stack, 1), Peek(m.stack, 0), "Load")),
            m.aux, m.tree, m.nid + 1)

Do_STORE_ATTR(ins, m) ==
    IF Len(m.stack) < 2 THEN Exc(m, "IndexError")
    ELSE Go(m, DropN(m.stack, 2), m.aux,
            Append(m.tree, Assign(Attribute(m.nid + 1, Peek(m.stack, 0), ins.operands, "Store"),
                                  Peek(m.stack, 1))),
            m.nid + 1)

Do_DUP_TOP(ins, m) ==
    IF m.stack = <<>> THEN Exc(m, "IndexError")
    ELSE Go(m, Push(m.stack, Peek(m.stack, 0)), m.aux, m.tree, m.nid)

Do_GET_ITER_STACK(ins, m) ==
    IF m.stack = <<>> THEN Exc(m, "IndexError")
    ELSE Res(Pop(m.stack), m.aux, m.tree, m.heap, m.nid, "break", "")

Do_POP_JUMP_IF_TRUE(ins, m) ==
    IF m.stack = <<>> THEN Exc(m, "IndexError")
    ELSE Res(Pop(m.stack), m.aux, m.tree, m.heap, m.nid, "break", "")

\* the text of a dunder name, "__" + w + "__"
Dunder(w) == <<"_", "_">> \o w \o <<"_", "_">>

Do_BINARY_OP(ins, m) ==
    LET parts == SplitWs(ins.operands)
        tag == IF Len(parts) = 2 THEN parts[2] ELSE <<>>
        arith(op) == IF Len(m.stack) < 2 THEN Exc(m, "IndexError")
                     ELSE Go(m, Push(DropN(m.stack, 2),
                                     BinOp(m.nid + 1, Peek(m.stack, 1), op, Peek(m.stack, 0))),
                             m.aux, m.tree, m.nid + 1)
    IN  IF tag = Dunder(<<"g", "t">>) THEN
          IF ~IsInt(parts[1]) THEN Exc(m, "ValueError")
          ELSE LET n == Max0(IntOf(parts[1]))
               IN  IF Len(m.stack) < n + 1 THEN Exc(m, "IndexError")
                   ELSE Go(m, Push(DropN(m.stack, n + 1),
                                   Compare(m.nid + 1, Peek(m.stack, n), <<"Gt">>, PopN(m.stack, n))),
                           m.aux, m.tree, m.nid + 1)
        ELSE IF tag = Dunder(<<"i", "a", "d", "d">>) THEN arith("Add")
        ELSE IF tag = Dunder(<<"i", "s", "u", "b">>) THEN arith("Sub")
        ELSE IF tag = Dunder(<<"a", "d", "d">>) THEN arith("Add")
        ELSE Go(m, m.stack, m.aux, m.tree, m.nid)

Do_ROT_TWO(ins, m) ==
    IF Len(m.stack) < 2 THEN Exc(m, "IndexError")
    ELSE LET a == Peek(m.stack, 0)
             b == Peek(m.stack, 1)
         IN  Go(m, Push(Push(DropN(m.stack, 2), a), b), m.aux, m.tree, m.nid)

Do_ROT_THREE(ins, m) ==
    IF Len(m.stack) < 3 THEN Exc(m, "IndexError")
    ELSE LET a == Peek(m.stack, 0)
             b == Peek(m.stack, 1)
             c == Peek(m.stack, 2)
         IN  Go(m, Push(Push(Push(DropN(m.stack, 3), b), c), a), m.aux, m.tree, m.nid)

Do_FOR_ITER(ins, m) ==
    IF ~IsInt(ins.operands) THEN Exc(m, "ValueError")
    ELSE Go(m, m.stack, Push(m.aux, PyInt(IntOf(ins.operands) + ins.offset)), m.tree, m.nid)

\* case x: log.warning(...)
\* not the code: an instruction without a case aborts the lift
Unknown_Raises(ins, m) == Exc(m, "NotImplementedError")

Do_Unknown(ins, m) == Go(m, m.stack, m.aux, m.tree, m.nid)

(***************************************************************************)
(* The state.                                                              *)
(***************************************************************************)
VARIABLES
    files,    \* main: os.listdir(input_dir), the entries' names in order
    fidx,     \* main: the number of entries the for loop has taken
    outs,     \* main: the files written to output_dir, name -> kind of body
    status,   \* where the run is: see the actions
    blocks,   \* uDecompiler.blocks: the code blocks in insertion order
    stack,    \* uDecompiler.stack.data
    frames,   \* the active pass_0 calls, outermost first:
              \*   [desc, pc, aux, tree, brk, entry]: aux_stack.data and tree
              \*   are locals of the call; entry is history, the operand
              \*   stack as it was when the call began
    heap,     \* the ast.alias objects made so far
    nid,      \* the number of node objects made so far
    err,      \* the exception that ended the run, "" for none
    result,   \* what decompile returned
    blocks_in,   \* Decompiler.py: the parsed blocks uDecompiler was made from
    cblocks,     \* Decompiler.py: uDecompiler.blocks, the code blocks in order
    top_desc,    \* Decompiler.py: uDecompiler.top_desc
    buf,         \* Decompiler.py: Stack.buf, the list all Stack objects share
    module_body, \* Decompiler.py: uDecompiler.module.body
    lifted,      \* history: module.body as each run of pass_1 left it
    output,        \* disassemble: the lines of the disassembler's output
    lno,           \* disassemble: the number of lines the for loop has taken
    lineinfo,      \* disassemble: the local lineinfo, offset -> line
    current_block  \* disassemble: the local current_block, <<>> for None,
                   \*   <<b>> for the code block b

vars == <<files, fidx, outs, status, blocks, stack, frames, heap, nid, err, result,
          blocks_in, cblocks, top_desc, buf, module_body, lifted,
          output, lno, lineinfo, current_block>>

decVars == <<blocks_in, cblocks, top_desc, buf, module_body, lifted>>

lifterVars == <<blocks, stack, frames, heap, nid, result>>

mainVars == <<files, fidx, outs>>

parserVars == <<output, lno, lineinfo, current_block>>

(***************************************************************************)
(* Code blocks (main.CodeBlock) and the instruction sequences explored.    *)
(***************************************************************************)
Q(s) == <<"'">> \o s \o <<"'">>

\* the text "<module>"
ModuleName == <<"<", "m", "o", "d", "u", "l", "e", ">">>

I(op, operands) == [opcode |-> op, operands |-> operands]

\* the instructions at offsets 0, 2, 4, ...
MkCode(c) == [i \in 1..Len(c) |-> [offset |-> 2 * (i - 1), opcode |-> c[i].opcode,
                                   operands |-> c[i].operands]]

Block(desc, name, args, c) ==
    [desc |-> desc, name |-> name, args |-> args, code |-> MkCode(c)]

HasBlock(bs, desc) == \E i \in 1..Len(bs) : bs[i].desc = desc

\* self.blocks[desc]
BlockOf(bs, desc) == bs[CHOOSE i \in 1..Len(bs) : bs[i].desc = desc]

NCALL(p, q) == <<"n", "=">> \o StrOfInt(p) \o <<" ", "n", "k", "w", "=">> \o StrOfInt(q)

\* the opcodes pass_0 has a case for
Implemented ==
    {"LOAD_CONST_SMALL_INT", "LOAD_CONST_NONE", "LOAD_CONST_TRUE", "LOAD_CONST_FALSE",
     "LOAD_CONST_STRING", "LOAD_CONST_OBJ", "LOAD_NAME", "IMPORT_NAME", "IMPORT_FROM",
     "STORE_NAME", "BUILD_TUPLE", "BUILD_LIST", "POP_TOP", "LOAD_BUILD_CLASS",
     "MAKE_FUNCTION", "RETURN_VALUE", "CALL_FUNCTION", "LOAD_GLOBAL", "LOAD_METHOD",
     "LOAD_FAST", "STORE_FAST", "LOAD_ATTR", "LOAD_SUBSCR", "STORE_ATTR", "CALL_METHOD",
     "DUP_TOP", "GET_ITER_STACK", "BINARY_OP", "ROT_TWO", "ROT_THREE", "POP_JUMP_IF_TRUE",
     "FOR_ITER"}

\* the instructions arbitrary sequences are made of
Alphabet ==
    {I("LOAD_CONST_SMALL_INT", <<"0">>), I("LOAD_CONST_NONE", <<>>),
     I("LOAD_CONST_STRING", Q(<<"a">>)), I("LOAD_NAME", <<"a">>),
     I("IMPORT_NAME", Q(<<"m">>)), I("IMPORT_FROM", Q(<<"a">>)),
     I("STORE_NAME", <<"a">>), I("STORE_NAME", <<"m">>),
     I("BUILD_TUPLE", <<"1">>), I("POP_TOP", <<>>), I("LOAD_BUILD_CLASS", <<>>),
     I("MAKE_FUNCTION", <<"f">>), I("RETURN_VALUE", <<>>),
     I("CALL_FUNCTION", NCALL(0, 0)), I("CALL_FUNCTION", NCALL(1, 0)),
     I("LOAD_FAST", <<"0">>), I("STORE_FAST", <<"0">>),
     I("LOAD_ATTR", <<"a">>), I("DUP_TOP", <<>>),
     I("BINARY_OP", <<"2", "6", " ">> \o Dunder(<<"a", "d", "d">>)),
     I("ROT_TWO", <<>>), I("ROT_THREE", <<>>),
     I("POP_JUMP_IF_TRUE", <<"4">>), I("POP_JUMP_IF_FALSE", <<"4">>)}

\* further instructions, run on the operand stacks left by Prefixes
Rare ==
    {I("LOAD_CONST_TRUE", <<>>), I("LOAD_CONST_FALSE", <<>>),
     I("LOAD_CONST_OBJ", <<"x", "=">> \o Q(<<"a">>)), I("LOAD_GLOBAL", <<"a">>),
     I("BUILD_TUPLE", <<"2">>), I("BUILD_TUPLE", <<"0">>), I("BUILD_LIST", <<"2">>),
     I("MAKE_FUNCTION", <<"g">>),
     I("CALL_FUNCTION", NCALL(0, 1)), I("CALL_FUNCTION", NCALL(2, 0)),
     I("CALL_METHOD", NCALL(0, 0)), I("CALL_METHOD", NCALL(1, 0)),
     I("CALL_METHOD", NCALL(0, 1)), I("LOAD_METHOD", <<"a">>),
     I("LOAD_FAST", <<"1">>), I("STORE_FAST", <<"1">>),
     I("BINARY_OP", <<"1", " ">> \o Dunder(<<"g", "t">>)),
     I("BINARY_OP", <<"0", " ">> \o Dunder(<<"l", "t">>)),
     I("BINARY_OP", <<"1", "4", " ">> \o Dunder(<<"i", "a", "d", "d">>)),
     I("BINARY_OP", <<"1", "5", " ">> \o Dunder(<<"i", "s", "u", "b">>)),
     I("BINARY_OP", <<"2", "7", " ">> \o Dunder(<<"s", "u", "b">>)),
     I("LOAD_SUBSCR", <<>>), I("STORE_ATTR", <<"a">>), I("GET_ITER_STACK", <<>>),
     I("FOR_ITER", <<"4">>), I("JUMP", <<"0">>),
     I("ROT_TWO", <<>>), I("ROT_THREE", <<>>),
     I("BINARY_OP", <<"2", " ">> \o Dunder(<<"e", "q">>)),
     I("BINARY_OP", <<"3", " ">> \o Dunder(<<"l", "e">>)),
     I("BINARY_OP", <<"4", " ">> \o Dunder(<<"g", "e">>)),
     I("BINARY_OP", <<"5", " ">> \o Dunder(<<"n", "e">>)),
     I("BINARY_OP", <<"2", "6", " ">> \o Dunder(<<"a", "d", "d">>))}

\* sequences that leave 0, 1, 2 and 3 entries on the operand stack
Prefixes ==
    {<<>>,
     <<I("LOAD_NAME", <<"a">>)>>,
     <<I("LOAD_NAME", <<"a">>), I("LOAD_CONST_STRING", Q(<<"b">>))>>,
     <<I("LOAD_NAME", <<"a">>), I("LOAD_CONST_STRING", Q(<<"b">>)),
       I("LOAD_CONST_SMALL_INT", <<"1">>)>>}

\* the sequences over S of length at most n
RECURSIVE SeqsUpTo(_, _)
SeqsUpTo(S, n) ==
    IF n = 0 THEN {<<>>}
    ELSE LET shorter == SeqsUpTo(S, n - 1)
         IN  shorter \cup {Append(q, x) : q \in {r \in shorter : Len(r) = n - 1}, x \in S}

Top(c) == Block(<<"t">>, ModuleName, <<>>, c)

\* a function f(x)
F(c) == Block(<<"f">>, <<"f">>, << <<"x">> >>, c)

UsesF(c) == \E i \in 1..Len(c) : c[i] = I("MAKE_FUNCTION", <<"f">>)

\* bodies of the nested block f that arbitrary sequences are paired with
FCodes ==
    {<<>>,
     <<I("RETURN_VALUE", <<>>)>>,
     <<I("POP_TOP", <<>>)>>,
     <<I("LOAD_CONST_NONE", <<>>)>>,
     <<I("LOAD_FAST", <<"0">>), I("RETURN_VALUE", <<>>)>>,
     <<I("MAKE_FUNCTION", <<"f">>)>>}

\* every module whose top block is a sequence over the alphabet of length at
\* most n; a sequence that makes the function f comes with each body of f
ArbPrograms(n) ==
    LET cs == SeqsUpTo(Alphabet, n)
    IN  {<<Top(c)>> : c \in {x \in cs : ~UsesF(x)}}
          \cup {<<Top(c), F(fc)>> : c \in {x \in cs : UsesF(x)}, fc \in FCodes}

Ret == <<I("LOAD_CONST_NONE", <<>>), I("RETURN_VALUE", <<>>)>>

\* import M (as k)
EmitImport(M, k) ==
    <<I("LOAD_CONST_SMALL_INT", <<"0">>), I("LOAD_CONST_NONE", <<>>),
      I("IMPORT_NAME", Q(M)), I("STORE_NAME", k)>>

\* x = 42
EmitAssign(x) == <<I("LOAD_CONST_SMALL_INT", <<"4", "2">>), I("STORE_NAME", x)>>

\* from m import a, b
EmitFrom2 ==
    <<I("LOAD_CONST_SMALL_INT", <<"0">>), I("LOAD_CONST_STRING", Q(<<"a">>)),
      I("LOAD_CONST_STRING", Q(<<"b">>)), I("BUILD_TUPLE", <<"2">>),
      I("IMPORT_NAME", Q(<<"m">>)),
      I("IMPORT_FROM", Q(<<"a">>)), I("STORE_NAME", <<"a">>),
      I("IMPORT_FROM", Q(<<"b">>)), I("STORE_NAME", <<"b">>),
      I("POP_TOP", <<>>)>>

\* def f(x): return x  /  f(1)
EmitDefCall ==
    <<I("MAKE_FUNCTION", <<"f">>), I("STORE_NAME", <<"f">>),
      I("LOAD_NAME", <<"f">>), I("LOAD_CONST_SMALL_INT", <<"1">>),
      I("CALL_FUNCTION", NCALL(1, 0)), I("POP_TOP", <<>>)>>

\* class C: <body f>
EmitClass ==
    <<I("LOAD_BUILD_CLASS", <<>>), I("MAKE_FUNCTION", <<"f">>),
      I("LOAD_CONST_STRING", Q(<<"C">>)), I("CALL_FUNCTION", NCALL(2, 0)),
      I("STORE_NAME", <<"C">>)>>

\* if a: b = 42
EmitIf ==
    <<I("LOAD_NAME", <<"a">>), I("POP_JUMP_IF_FALSE", <<"8">>)>> \o EmitAssign(<<"b">>)

FBody == <<I("LOAD_FAST", <<"0">>), I("RETURN_VALUE", <<>>)>>

\* @a / def f(x): ...
EmitDecorated ==
    <<I("LOAD_NAME", <<"a">>), I("MAKE_FUNCTION", <<"f">>),
      I("CALL_FUNCTION", NCALL(1, 0)), I("STORE_NAME", <<"f">>)>>

\* a = {}
EmitDict == <<I("BUILD_MAP", <<"0">>), I("STORE_NAME", <<"a">>)>>

\* return {}
FDictBody == <<I("BUILD_MAP", <<"0">>), I("RETURN_VALUE", <<>>)>>

\* modules as the VM's compiler emits them (the scenarios of the
\* specification and a few more)
Emitted ==
    {<<Top(EmitImport(<<"m">>, k) \o Ret)>> : k \in {<<"m">>, <<"a">>}}
      \cup {<<Top(EmitAssign(<<"a">>) \o EmitImport(<<"m">>, k) \o Ret)>> : k \in {<<"m">>, <<"a">>}}
      \cup {<<Top(EmitAssign(<<"a">>) \o Ret)>>,
            <<Top(EmitFrom2 \o Ret)>>,
            <<Top(EmitDefCall \o Ret), F(FBody)>>,
            <<Top(EmitClass \o Ret), F(EmitAssign(<<"a">>) \o Ret)>>,
            <<Top(EmitIf \o Ret)>>,
            <<Top(EmitDecorated \o Ret), F(FBody)>>,
            <<Top(EmitDecorated \o Ret), F(FDictBody)>>,
            <<Top(EmitDefCall \o Ret), F(FDictBody)>>,
            <<Top(EmitDict \o Ret)>>,
            <<F(FBody)>>}

\* a further instruction after a prefix, as the last instruction and followed
\* by POP_TOP
RarePrograms ==
    {<<Top(p \o <<r>> \o t)>> : p \in Prefixes, r \in Rare,
                                 t \in {<<>>, <<I("POP_TOP", <<>>)>>}}

\* class C: <body f>, after the statement a = 42
EmitAssignClass == EmitAssign(<<"a">>) \o EmitClass \o Ret

\* class C: <body f>, begun with an entry on the operand stack
EmitClassOnStack == <<I("LOAD_NAME", <<"a">>)>> \o EmitClass \o <<I("POP_TOP", <<>>)>>

\* class C: <body f>, stored under the name a
EmitClassAs ==
    <<I("LOAD_BUILD_CLASS", <<>>), I("MAKE_FUNCTION", <<"f">>),
      I("LOAD_CONST_STRING", Q(<<"C">>)), I("CALL_FUNCTION", NCALL(2, 0)),
      I("STORE_NAME", <<"a">>)>>

\* a = 1 while the auxiliary stack holds the marker the instruction mk pushed
EmitAssignUnder(mk) ==
    <<mk, I("LOAD_CONST_SMALL_INT", <<"1">>), I("STORE_NAME", <<"a">>)>>

\* if not a: b = 42
EmitIfNot ==
    <<I("LOAD_NAME", <<"a">>), I("POP_JUMP_IF_TRUE", <<"8">>)>> \o EmitAssign(<<"b">>)

\* for b in a: pass
EmitFor ==
    <<I("LOAD_NAME", <<"a">>), I("GET_ITER_STACK", <<>>), I("FOR_ITER", <<"4">>),
      I("STORE_NAME", <<"b">>), I("JUMP", <<"-", "6">>)>>

\* modules with a jump or a loop before further statements
Branching == {<<Top(EmitIfNot \o Ret)>>, <<Top(EmitFor \o Ret)>>}

\* further modules: each construct in the surroundings the claims speak of
Scenarios ==
    {<<Top(EmitAssignClass), F(EmitAssign(<<"a">>) \o Ret)>>,
     <<Top(EmitClassOnStack), F(Ret)>>,
     <<Top(EmitClassAs \o Ret), F(Ret)>>,
     <<Top(EmitAssignUnder(I("FOR_ITER", <<"4">>)) \o Ret)>>,
     <<Top(EmitAssignUnder(I("LOAD_BUILD_CLASS", <<>>)) \o Ret)>>}
      \cup Branching

Programs == ArbPrograms(MaxLen) \cup RarePrograms \cup Emitted \cup Scenarios

(***************************************************************************)
(* uDecompiler.decompile and pass_0 (src/main.py).                         *)
(*                                                                         *)
(* status: "decompile"  decompile is about to run on a decompiler whose    *)
(*                      blocks are parsed                                  *)
(*         "lifting"    pass_0 is running                                  *)
(*         "returned"   decompile has returned result                      *)
(*         "raised"     an exception err has left decompile                *)
(***************************************************************************)
NewFrame(desc, st) ==
    [desc |-> desc, pc |-> 1, aux |-> <<>>, tree |-> <<>>, brk |-> FALSE, entry |-> st]

TopFrame == frames[Len(frames)]

CurCode == BlockOf(blocks, TopFrame.desc).code

\* the loop of the innermost pass_0 has an instruction left
Running == /\ status = "lifting"
           /\ ~TopFrame.brk
           /\ TopFrame.pc <= Len(CurCode)

\* instr of "for instr, next in zip_longest(instrs, instrs[1:])"
Cur == CurCode[TopFrame.pc]

\* next.opcode, "None" when instr is the last instruction
NextOpcode == IF TopFrame.pc < Len(CurCode) THEN CurCode[TopFrame.pc + 1].opcode ELSE "None"

Mach == [stack |-> stack, aux |-> TopFrame.aux, tree |-> TopFrame.tree, heap |-> heap,
         nid |-> nid, args |-> BlockOf(blocks, TopFrame.desc).args, next |-> NextOpcode]

AtOp(op) == Running /\ Cur.opcode = op

\* the run goes on from the machine r
Apply(r) ==
    /\ stack' = r.stack
    /\ heap' = r.heap
    /\ nid' = r.nid
    /\ IF r.ctl = "raise"
       THEN /\ status' = "raised"
            /\ err' = r.err
            /\ frames' = frames
       ELSE /\ status' = status
            /\ err' = err
            /\ frames' = [frames EXCEPT ![Len(frames)] =
                            [@ EXCEPT !.aux = r.aux, !.tree = r.tree, !.pc = @ + 1,
                                      !.brk = (r.ctl = "break")]]
    /\ UNCHANGED <<blocks, result, mainVars, decVars, parserVars>>

\* top_desc of decompile: the desc of the first block named top_name
TopDesc(bs, top_name) ==
    LET hits == {i \in 1..Len(bs) : bs[i].name = top_name}
    IN  IF hits = {} THEN [found |-> FALSE]
        ELSE [found |-> TRUE, desc |-> bs[CHOOSE i \in hits : \A j \in hits : i <= j].desc]

Decompile ==
    /\ status = "decompile"
    /\ LET td == TopDesc(blocks, ModuleName)
       IN  IF ~td.found
           THEN /\ status' = "returned"
                /\ result' = [kind |-> "ERROR"]
                /\ frames' = frames
           ELSE /\ status' = "lifting"
                /\ result' = result
                /\ frames' = <<NewFrame(td.desc, stack)>>
    /\ UNCHANGED <<blocks, stack, heap, nid, err, mainVars, decVars, parserVars>>

(***************************************************************************)
(* One action per case of pass_0's match statement.                        *)
(***************************************************************************)
LOAD_CONST_SMALL_INT == AtOp("LOAD_CONST_SMALL_INT") /\ Apply(Do_LOAD_CONST_SMALL_INT(Cur, Mach))

LOAD_CONST_NONE == AtOp("LOAD_CONST_NONE") /\ Apply(Do_LOAD_CONST_NONE(Cur, Mach))

LOAD_CONST_TRUE == AtOp("LOAD_CONST_TRUE") /\ Apply(Do_LOAD_CONST_TRUE(Cur, Mach))

LOAD_CONST_FALSE == AtOp("LOAD_CONST_FALSE") /\ Apply(Do_LOAD_CONST_FALSE(Cur, Mach))

LOAD_CONST_STRING == AtOp("LOAD_CONST_STRING") /\ Apply(Do_LOAD_CONST_STRING(Cur, Mach))

LOAD_CONST_OBJ == AtOp("LOAD_CONST_OBJ") /\ Apply(Do_LOAD_CONST_OBJ(Cur, Mach))

LOAD_NAME == AtOp("LOAD_NAME") /\ Apply(Do_LOAD_NAME(Cur, Mach))

IMPORT_NAME == AtOp("IMPORT_NAME") /\ Apply(Do_IMPORT_NAME(Cur, Mach))

IMPORT_FROM == AtOp("IMPORT_FROM") /\ Apply(Do_IMPORT_FROM(Cur, Mach))

STORE_NAME == AtOp("STORE_NAME") /\ Apply(Do_STORE_NAME(Cur, Mach))

BUILD_TUPLE == AtOp("BUILD_TUPLE") /\ Apply(Do_BUILD_TUPLE(Cur, Mach))

BUILD_LIST == AtOp("BUILD_LIST") /\ Apply(Do_BUILD_LIST(Cur, Mach))

POP_TOP == AtOp("POP_TOP") /\ Apply(Do_POP_TOP(Cur, Mach))

LOAD_BUILD_CLASS == AtOp("LOAD_BUILD_CLASS") /\ Apply(Do_LOAD_BUILD_CLASS(Cur, Mach))

RETURN_VALUE == AtOp("RETURN_VALUE") /\ Apply(Do_RETURN_VALUE(Cur, Mach))

CALL_FUNCTION == AtOp("CALL_FUNCTION") /\ Apply(Do_CALL_FUNCTION(Cur, Mach))

LOAD_GLOBAL == AtOp("LOAD_GLOBAL") /\ Apply(Do_LOAD_GLOBAL(Cur, Mach))

LOAD_METHOD == AtOp("LOAD_METHOD") /\ Apply(Do_LOAD_METHOD(Cur, Mach))

LOAD_FAST == AtOp("LOAD_FAST") /\ Apply(Do_LOAD_FAST(Cur, Mach))

STORE_FAST == AtOp("STORE_FAST") /\ Apply(Do_STORE_FAST(Cur, Mach))

LOAD_ATTR == AtOp("LOAD_ATTR") /\ Apply(Do_LOAD_ATTR(Cur, Mach))

LOAD_SUBSCR == AtOp("LOAD_SUBSCR") /\ Apply(Do_LOAD_SUBSCR(Cur, Mach))

STORE_ATTR == AtOp("STORE_ATTR") /\ Apply(Do_STORE_ATTR(Cur, Mach))

CALL_METHOD == AtOp("CALL_METHOD") /\ Apply(Do_CALL_METHOD(Cur, Mach))

DUP_TOP == AtOp("DUP_TOP") /\ Apply(Do_DUP_TOP(Cur, Mach))

GET_ITER_STACK == AtOp("GET_ITER_STACK") /\ Apply(Do_GET_ITER_STACK(Cur, Mach))

BINARY_OP == AtOp("BINARY_OP") /\ Apply(Do_BINARY_OP(Cur, Mach))

ROT_TWO == AtOp("ROT_TWO") /\ Apply(Do_ROT_TWO(Cur, Mach))

ROT_THREE == AtOp("ROT_THREE") /\ Apply(Do_ROT_THREE(Cur, Mach))

POP_JUMP_IF_TRUE == AtOp("POP_JUMP_IF_TRUE") /\ Apply(Do_POP_JUMP_IF_TRUE(Cur, Mach))

FOR_ITER == AtOp("FOR_ITER") /\ Apply(Do_FOR_ITER(Cur, Mach))

\* case x: an opcode without a case
UnknownOpcode == Running /\ Cur.opcode \notin Implemented /\ Apply(Do_Unknown(Cur, Mach))

\* case "MAKE_FUNCTION", up to the recursive call self.pass_0(instr.operands):
\* self.blocks[instr.operands] raises KeyError for an unknown descriptor; a
\* call deeper than the interpreter allows raises RecursionError
MAKE_FUNCTION ==
    /\ AtOp("MAKE_FUNCTION")
    /\ IF ~HasBlock(blocks, Cur.operands) THEN
         /\ status' = "raised"
         /\ err' = "KeyError"
         /\ frames' = frames
       ELSE IF Len(frames) >= MaxDepth THEN
         /\ status' = "raised"
         /\ err' = "RecursionError"
         /\ frames' = frames
       ELSE
         /\ status' = status
         /\ err' = err
         /\ frames' = Append(frames, NewFrame(Cur.operands, stack))
    /\ UNCHANGED <<blocks, stack, heap, nid, result, mainVars, decVars, parserVars>>

\* the innermost pass_0 has left its loop
Finished == /\ status = "lifting"
            /\ TopFrame.brk \/ TopFrame.pc > Len(CurCode)

\* a nested pass_0 returns its tree: case "MAKE_FUNCTION" of the caller goes
\* on, pushing FunctionDef(fcb.name, args, <tree>)
PassReturn ==
    /\ Finished
    /\ Len(frames) > 1
    /\ LET fcb == BlockOf(blocks, TopFrame.desc)
           x == FunctionDef(nid + 1, fcb.name, fcb.args, TopFrame.tree)
           caller == Len(frames) - 1
       IN  /\ stack' = Push(stack, x)
           /\ nid' = nid + 1
           /\ frames' = [SubSeq(frames, 1, caller) EXCEPT ![caller].pc = @ + 1]
    /\ UNCHANGED <<blocks, heap, status, err, result, mainVars, decVars, parserVars>>

\* pass_0(top_desc) returns to decompile, which returns the unparsed module
PassDone ==
    /\ Finished
    /\ Len(frames) = 1
    /\ status' = "returned"
    /\ result' = [kind |-> "source", statements |-> TopFrame.tree]
    /\ frames' = <<>>
    /\ UNCHANGED <<blocks, stack, heap, nid, err, mainVars, decVars, parserVars>>

Lift ==
    \/ LOAD_CONST_SMALL_INT
    \/ LOAD_CONST_NONE
    \/ LOAD_CONST_TRUE
    \/ LOAD_CONST_FALSE
    \/ LOAD_CONST_STRING
    \/ LOAD_CONST_OBJ
    \/ LOAD_NAME
    \/ IMPORT_NAME
    \/ IMPORT_FROM
    \/ STORE_NAME
    \/ BUILD_TUPLE
    \/ BUILD_LIST
    \/ POP_TOP
    \/ LOAD_BUILD_CLASS
    \/ RETURN_VALUE
    \/ CALL_FUNCTION
    \/ LOAD_GLOBAL
    \/ LOAD_METHOD
    \/ LOAD_FAST
    \/ STORE_FAST
    \/ LOAD_ATTR
    \/ LOAD_SUBSCR
    \/ STORE_ATTR
    \/ CALL_METHOD
    \/ DUP_TOP
    \/ GET_ITER_STACK
    \/ BINARY_OP
    \/ ROT_TWO
    \/ ROT_THREE
    \/ POP_JUMP_IF_TRUE
    \/ FOR_ITER
    \/ UnknownOpcode
    \/ MAKE_FUNCTION
    \/ PassReturn
    \/ PassDone

(***************************************************************************)
(* Spec: decompile on a fresh uDecompiler whose blocks are any module of   *)
(* Programs.                                                               *)
(***************************************************************************)
NoResult == [kind |-> "none"]

\* Decompiler.py is not in use
DecIdle ==
    /\ blocks_in = <<>>
    /\ cblocks = <<>>
    /\ top_desc = <<>>
    /\ buf = <<>>
    /\ module_body = <<>>
    /\ lifted = <<>>

\* disassemble is not running
ParserIdle ==
    /\ output = <<>>
    /\ lno = 0
    /\ lineinfo = <<>>
    /\ current_block = <<>>

Init ==
    /\ files = <<>>
    /\ fidx = 0
    /\ outs = <<>>
    /\ status = "decompile"
    /\ blocks \in Programs
    /\ stack = <<>>
    /\ frames = <<>>
    /\ heap = <<>>
    /\ nid = 0
    /\ err = ""
    /\ result = NoResult
    /\ DecIdle
    /\ ParserIdle

Next == Decompile \/ Lift

Spec == Init /\ [][Next]_vars

(***************************************************************************)
(* SpecMain: main() of src/main.py over an input directory.                *)
(*                                                                         *)
(* status: "main"             at the head of the for loop                  *)
(*         "get_disassembly"  d is constructed, d.get_disassembly() is next*)
(*         "write_asm"        the disassembly is to be written             *)
(*         "decompile" .. "returned"  as above; dec is then written        *)
(*         "done"             main has returned                            *)
(*         "raised"           an exception err has left main               *)
(***************************************************************************)
DotMpy == <<".", "m", "p", "y">>

\* the directory entries
FileNames == {<<"a">> \o DotMpy, <<"b">> \o DotMpy, <<"c", ".", "p", "y">>}

\* os.listdir: the entries in any order, at most n of them
Listings(n) ==
    {l \in SeqsUpTo(FileNames, n) : \A i, j \in 1..Len(l) : i # j => l[i] # l[j]}

\* fn[-4:]
Suffix4(fn) == IF Len(fn) <= 4 THEN fn ELSE SubSeq(fn, Len(fn) - 3, Len(fn))

\* fn[:-4]
module_name(fn) == SubSeq(fn, 1, Len(fn) - 4)

fn_asm(fn) == module_name(fn) \o <<".", "s">>

fn_dec(fn) == module_name(fn) \o <<".", "p", "y">>

\* the modules the .mpy files of the directory disassemble to
MainPrograms == ArbPrograms(1) \cup RarePrograms \cup Emitted

\* get_disassembly: self.blocks[bc.operands] of a MAKE_FUNCTION raises KeyError
MissingDescriptor(bs) ==
    \E b \in 1..Len(bs) : \E i \in 1..Len(bs[b].code) :
        /\ bs[b].code[i].opcode = "MAKE_FUNCTION"
        /\ ~HasBlock(bs, bs[b].code[i].operands)

AtFile == status = "main" /\ fidx < Len(files)

\* if fn[-4:] != ".mpy": continue
MainSkip ==
    /\ AtFile
    /\ Suffix4(files[fidx + 1]) # DotMpy
    /\ fidx' = fidx + 1
    /\ UNCHANGED <<files, outs, status, err, lifterVars, decVars, parserVars>>

\* d = uDecompiler(fn_mpy, module_name)
MainOpen ==
    /\ AtFile
    /\ Suffix4(files[fidx + 1]) = DotMpy
    /\ fidx' = fidx + 1
    /\ status' = "get_disassembly"
    /\ blocks' = <<>>
    /\ stack' = <<>>
    /\ frames' = <<>>
    /\ heap' = <<>>
    /\ nid' = 0
    /\ result' = NoResult
    /\ UNCHANGED <<files, outs, err, decVars, parserVars>>

\* dis = d.get_disassembly(): disassemble() parses the file, then every
\* MAKE_FUNCTION operand is looked up in self.blocks
GetDisassembly ==
    /\ status = "get_disassembly"
    /\ \E bs \in MainPrograms :
         /\ blocks' = bs
         /\ IF MissingDescriptor(bs)
            THEN status' = "raised" /\ err' = "KeyError"
            ELSE status' = "write_asm" /\ err' = err
    /\ UNCHANGED <<mainVars, stack, frames, heap, nid, result, decVars, parserVars>>

\* with open(fn_asm, 'w') as f_asm: f_asm.write(dis)
WriteAsm ==
    /\ status = "write_asm"
    /\ outs' = Append(outs, [name |-> fn_asm(files[fidx]), kind |-> "asm"])
    /\ status' = "decompile"
    /\ UNCHANGED <<files, fidx, err, lifterVars, decVars, parserVars>>

\* with open(fn_dec, 'w') as f_dec: f_dec.write(dec)
WriteDec ==
    /\ status = "returned"
    /\ outs' = Append(outs, [name |-> fn_dec(files[fidx]), kind |-> result.kind])
    /\ status' = "main"
    /\ UNCHANGED <<files, fidx, err, lifterVars, decVars, parserVars>>

\* the for loop is over: log.info("Done.")
MainDone ==
    /\ status = "main"
    /\ fidx = Len(files)
    /\ status' = "done"
    /\ UNCHANGED <<mainVars, err, lifterVars, decVars, parserVars>>

InitMain ==
    /\ files \in Listings(MaxFiles)
    /\ fidx = 0
    /\ outs = <<>>
    /\ status = "main"
    /\ blocks = <<>>
    /\ stack = <<>>
    /\ frames = <<>>
    /\ heap = <<>>
    /\ nid = 0
    /\ err = ""
    /\ result = NoResult
    /\ DecIdle
    /\ ParserIdle

NextMain ==
    \/ MainSkip
    \/ MainOpen
    \/ GetDisassembly
    \/ WriteAsm
    \/ Decompile
    \/ Lift
    \/ WriteDec
    \/ MainDone

SpecMain == InitMain /\ [][NextMain]_vars

(***************************************************************************)
(* Claims about the lifter of src/main.py, checked under Spec.             *)
(***************************************************************************)
\* some block of the module holds an instruction satisfying P
AnyInstr(bs, P(_)) == \E b \in 1..Len(bs) : \E i \in 1..Len(bs[b].code) : P(bs[b].code[i])

\* C1 (as claimed): when pass_0 has lifted the top-level block to completion
\* without raising, the operand stack is empty.  Stated for the modules the
\* VM's compiler emits, the weakest reading of "every instruction sequence".
C1_StackBalance ==
    (status = "returned" /\ result.kind = "source" /\ blocks \in Emitted) => stack = <<>>

\* C5 (as claimed): a nested lift (MAKE_FUNCTION) starts with an empty operand
\* stack and an empty auxiliary stack, and the entries the enclosing lifts
\* pushed stay on the operand stack, below its own, exactly as they were.
\* Stated for the modules the VM's compiler emits.
C5_FreshStacks ==
    (status = "lifting" /\ Len(frames) > 1 /\ blocks \in Emitted) =>
        /\ TopFrame.entry = <<>>
        /\ TopFrame.pc = 1 => TopFrame.aux = <<>>
        /\ Len(stack) >= Len(TopFrame.entry)
        /\ SubSeq(stack, Len(stack) - Len(TopFrame.entry) + 1, Len(stack)) = TopFrame.entry

\* the tags case "BINARY_OP" has a case for
BinaryTags ==
    {Dunder(<<"g", "t">>), Dunder(<<"i", "a", "d", "d">>), Dunder(<<"i", "s", "u", "b">>),
     Dunder(<<"a", "d", "d">>)}

\* an instruction the lifter does not implement: an opcode without a case,
\* or a BINARY_OP whose operands are not a number and a tag with a case
C9_NoCase(ins) ==
    \/ ins.opcode \notin Implemented
    \/ /\ ins.opcode = "BINARY_OP"
       /\ LET parts == SplitWs(ins.operands)
          IN  Len(parts) # 2 \/ parts[2] \notin BinaryTags

NameSet == {<<"a">>, <<"b">>, <<"m">>}

\* c[i..i+3] is LOAD_CONST_SMALL_INT 0; LOAD_CONST_NONE; IMPORT_NAME 'M';
\* STORE_NAME k
C10_Pattern(c, i, M, k) ==
    /\ i >= 1
    /\ i + 3 <= Len(c)
    /\ c[i].opcode = "LOAD_CONST_SMALL_INT" /\ c[i].operands = <<"0">>
    /\ c[i + 1].opcode = "LOAD_CONST_NONE"
    /\ c[i + 2].opcode = "IMPORT_NAME" /\ c[i + 2].operands = Q(M)
    /\ c[i + 3].opcode = "STORE_NAME" /\ c[i + 3].operands = k

\* C10: in the sequence LOAD_CONST_SMALL_INT 0; LOAD_CONST_NONE; IMPORT_NAME
\* 'M'; STORE_NAME k the first three instructions append no statement, and
\* when the sequence began with both stacks empty (at the STORE_NAME the
\* operand stack then holds just the Import and the auxiliary stack just the
\* marker), the STORE_NAME appends exactly one statement, an Import with the
\* single alias M whose asname is k if k differs from M and None otherwise,
\* and leaves both stacks empty.
C10_PlainImport ==
    [][\A M \in NameSet, k \in NameSet :
         \A i \in 1..(IF Running THEN Len(CurCode) ELSE 0) :
           C10_Pattern(CurCode, i, M, k) =>
             LET f == frames'[Len(frames)]
                 old == TopFrame.tree
             IN  /\ (TopFrame.pc \in i..(i + 2) /\ status' = "lifting") => f.tree = old
                 /\ (TopFrame.pc = i + 3 /\ Len(stack) = 1 /\ Len(TopFrame.aux) = 1) =>
                      /\ status' = "lifting"
                      /\ Len(frames') = Len(frames)
                      /\ stack' = <<>>
                      /\ f.aux = <<>>
                      /\ Len(f.tree) = Len(old) + 1
                      /\ SubSeq(f.tree, 1, Len(old)) = old
                      /\ LET imp == f.tree[Len(f.tree)]
                         IN  /\ imp.t = "Import"
                             /\ Len(imp.names) = 1
                             /\ heap'[imp.names[1]].name = PyStr(M)
                             /\ heap'[imp.names[1]].asname =
                                  IF k # M THEN PyStr(k) ELSE PyNone]_vars

\* C10: an import-as has just been lifted from empty stacks, after an earlier
\* statement of the block
C10_Witness ==
    /\ status = "lifting"
    /\ TopFrame.pc > 5
    /\ C10_Pattern(CurCode, TopFrame.pc - 4, <<"m">>, <<"a">>)
    /\ stack = <<>>
    /\ TopFrame.aux = <<>>
    /\ Len(TopFrame.tree) = 2
    /\ TopFrame.tree[2].t = "Import"
    /\ heap[TopFrame.tree[2].names[1]].asname = PyStr(<<"a">>)

\* the block begins with the instructions of "from m import a, b"
C11_Group(c) ==
    /\ Len(c) >= Len(EmitFrom2)
    /\ \A j \in 1..Len(EmitFrom2) : I(c[j].opcode, c[j].operands) = EmitFrom2[j]

\* the names of the aliases of an Import or ImportFrom node, in order
AliasNames(hp, n) == [j \in 1..Len(n.names) |-> hp[n.names[j]].name]

\* C11 (as claimed): in a top-level block that begins with IMPORT_NAME 'm' on
\* the fromlist ('a', 'b'), IMPORT_FROM 'a'; STORE_NAME a; IMPORT_FROM 'b';
\* STORE_NAME b; POP_TOP, no statement is appended before the last STORE_NAME;
\* that STORE_NAME appends exactly one statement, an ImportFrom of module m
\* whose names are a, b in this order; and after the POP_TOP the operand
\* stack and the auxiliary stack are empty.
C11_FromImport ==
    (status = "lifting" /\ Len(frames) = 1 /\ C11_Group(CurCode)) =>
        /\ TopFrame.pc <= 9 => TopFrame.tree = <<>>
        /\ TopFrame.pc \in {10, 11} =>
             /\ Len(TopFrame.tree) = 1
             /\ TopFrame.tree[1].t = "ImportFrom"
             /\ TopFrame.tree[1].module = PyStr(<<"m">>)
             /\ AliasNames(heap, TopFrame.tree[1]) = <<PyStr(<<"a">>), PyStr(<<"b">>)>>
        /\ TopFrame.pc = 11 => (stack = <<>> /\ TopFrame.aux = <<>>)

\* the instruction is a call that is not the materialization of a class
C12_PlainCall(ins, aux) ==
    \/ ins.opcode = "CALL_METHOD"
    \/ /\ ins.opcode = "CALL_FUNCTION"
       /\ ~(aux # <<>> /\ PyEq(Peek(aux, 0), PyStr(BuildClassText)))

\* C12 (as claimed): a CALL_FUNCTION or CALL_METHOD that is followed by
\* POP_TOP appends exactly one statement, an Expr that wraps the Call it
\* pushes, and one that is followed by another instruction appends none; the
\* POP_TOP after a call pops the call and appends nothing.
C12_CallStatement ==
    [][(Running /\ status' = "lifting") =>
         LET f == frames'[Len(frames)]
             old == TopFrame.tree
         IN  /\ (C12_PlainCall(Cur, TopFrame.aux) /\ NextOpcode = "POP_TOP") =>
                  /\ Len(f.tree) = Len(old) + 1
                  /\ SubSeq(f.tree, 1, Len(old)) = old
                  /\ stack'[1].t = "Call"
                  /\ f.tree[Len(f.tree)].t = "Expr"
                  /\ f.tree[Len(f.tree)].value = stack'[1]
             /\ (C12_PlainCall(Cur, TopFrame.aux) /\ NextOpcode # "POP_TOP") => f.tree = old
             /\ (/\ Cur.opcode = "POP_TOP"
                 /\ TopFrame.pc > 1
                 /\ CurCode[TopFrame.pc - 1].opcode \in {"CALL_FUNCTION", "CALL_METHOD"}) =>
                  (stack' = Pop(stack) /\ f.tree = old)]_vars

\* names of classes
ClassNames == {<<"C">>, <<"a">>}

\* c[i..i+4] is LOAD_BUILD_CLASS; MAKE_FUNCTION <body>; LOAD_CONST_STRING 'k';
\* CALL_FUNCTION n=2 nkw=0; STORE_NAME k
C13_Pattern(c, i, k) ==
    /\ i >= 1
    /\ i + 4 <= Len(c)
    /\ c[i].opcode = "LOAD_BUILD_CLASS"
    /\ c[i + 1].opcode = "MAKE_FUNCTION"
    /\ c[i + 2].opcode = "LOAD_CONST_STRING" /\ c[i + 2].operands = Q(k)
    /\ c[i + 3].opcode = "CALL_FUNCTION" /\ c[i + 3].operands = NCALL(2, 0)
    /\ c[i + 4].opcode = "STORE_NAME" /\ c[i + 4].operands = k

\* the step the lift at instruction i of the pattern takes: what it does to
\* the operand stack, the auxiliary stack and the statement list
C13_Step(i, k) ==
    LET f == frames'[Len(frames)]
        old == TopFrame.tree
        here == status' = "lifting" /\ Len(frames') = Len(frames)
    IN  \* LOAD_BUILD_CLASS puts the marker on the auxiliary stack
        /\ TopFrame.pc = i =>
             (here /\ stack' = stack /\ f.tree = old
                   /\ f.aux = Push(TopFrame.aux, PyStr(BuildClassText)))
        \* MAKE_FUNCTION begins the lift of the body with its own auxiliary
        \* stack and statement list
        /\ (TopFrame.pc = i + 1 /\ HasBlock(blocks, Cur.operands) /\ Len(frames) < MaxDepth) =>
             /\ status' = "lifting"
             /\ stack' = stack
             /\ frames' = Append(frames, NewFrame(Cur.operands, stack))
        /\ TopFrame.pc = i + 2 =>
             (here /\ Pop(stack') = stack /\ f.tree = old /\ f.aux = TopFrame.aux
                   /\ stack'[1].t = "Constant" /\ stack'[1].value = PyStr(k))
        \* CALL_FUNCTION takes the name and the function, appends the ClassDef
        \* and removes the marker
        /\ (/\ TopFrame.pc = i + 3
            /\ TopFrame.aux # <<>> /\ TopFrame.aux[1] = PyStr(BuildClassText)
            /\ Len(stack) >= 2
            /\ stack[1].t = "Constant" /\ stack[1].value = PyStr(k)
            /\ stack[2].t = "FunctionDef") =>
             /\ here
             /\ f.aux = Pop(TopFrame.aux)
             /\ Len(stack') = Len(stack) - 1
             /\ DropN(stack', 1) = DropN(stack, 2)
             /\ stack'[1].t = "ClassDef"
             /\ stack'[1].name = PyStr(k)
             /\ stack'[1].body = stack[2].body
             /\ f.tree = Append(old, stack'[1])
        \* STORE_NAME takes the ClassDef and appends nothing
        /\ (/\ TopFrame.pc = i + 4
            /\ TopFrame.aux = <<>>
            /\ stack # <<>> /\ stack[1].t = "ClassDef") =>
             (here /\ stack' = Pop(stack) /\ f.tree = old /\ f.aux = <<>>)

\* the lift of the body of the pattern's MAKE_FUNCTION returns
C13_BodyReturn(i) ==
    LET caller == frames[Len(frames) - 1]
        g == frames'[Len(frames) - 1]
    IN  (caller.pc = i + 1 /\ stack = TopFrame.entry) =>
          /\ status' = "lifting"
          /\ Len(frames') = Len(frames) - 1
          /\ g.pc = i + 2 /\ g.aux = caller.aux /\ g.tree = caller.tree
          /\ Pop(stack') = TopFrame.entry
          /\ stack'[1].t = "FunctionDef"
          /\ stack'[1].body = TopFrame.tree

\* C13: in the sequence LOAD_BUILD_CLASS; MAKE_FUNCTION <body>;
\* LOAD_CONST_STRING 'k'; CALL_FUNCTION n=2 nkw=0; STORE_NAME k, begun with an
\* empty auxiliary stack and with a body whose lift leaves the operand stack
\* as it found it: LOAD_BUILD_CLASS pushes the marker and nothing else; the
\* body's lift returns into a FunctionDef on top of the operand stack whose
\* body is the statement list it lifted; the CALL_FUNCTION pops the name and
\* the function, appends exactly one ClassDef named k with that body, pushes
\* it and removes the marker; the STORE_NAME pops the ClassDef and appends
\* nothing.  The statement list so gains exactly the one ClassDef and the
\* operand stack is back at its depth before the sequence.
C13_ClassDefinition ==
    [][\A k \in ClassNames :
         /\ \A i \in 1..(IF Running THEN Len(CurCode) ELSE 0) :
              C13_Pattern(CurCode, i, k) => C13_Step(i, k)
         /\ (Finished /\ Len(frames) > 1) =>
              \A i \in 1..Len(BlockOf(blocks, frames[Len(frames) - 1].desc).code) :
                C13_Pattern(BlockOf(blocks, frames[Len(frames) - 1].desc).code, i, k)
                  => C13_BodyReturn(i)]_vars

\* C13: the class C has just been lifted after the statement a = 42: the
\* statement list gained the one ClassDef, whose body is the lifted body
\* block, and both stacks are as before the sequence
C13_Witness ==
    /\ status = "lifting"
    /\ Len(frames) = 1
    /\ TopFrame.pc = 8
    /\ C13_Pattern(CurCode, 3, <<"C">>)
    /\ stack = <<>>
    /\ TopFrame.aux = <<>>
    /\ Len(TopFrame.tree) = 2
    /\ TopFrame.tree[1].t = "Assign"
    /\ TopFrame.tree[2].t = "ClassDef"
    /\ TopFrame.tree[2].name = PyStr(<<"C">>)
    /\ Len(TopFrame.tree[2].body) = 2
    /\ TopFrame.tree[2].body[1].t = "Assign"
    /\ TopFrame.tree[2].body[2].t = "Return"

\* C14 (as claimed): BUILD_TUPLE n and BUILD_LIST n, on an operand stack of
\* at least n entries, pop exactly n entries and push one Tuple (List) of n
\* elements in source order: element j (from 1) is the entry pushed j-th of
\* the n, so the entry on top of the stack is the last element.
C14_SourceOrder ==
    [][(/\ Running
        /\ Cur.opcode \in {"BUILD_TUPLE", "BUILD_LIST"}
        /\ IsInt(Cur.operands)
        /\ IntOf(Cur.operands) >= 0
        /\ Len(stack) >= IntOf(Cur.operands)) =>
         LET n == IntOf(Cur.operands)
         IN  /\ status' = "lifting"
             /\ Len(stack') = Len(stack) - n + 1
             /\ DropN(stack', 1) = DropN(stack, n)
             /\ stack'[1].t = (IF Cur.opcode = "BUILD_TUPLE" THEN "Tuple" ELSE "List")
             /\ Len(stack'[1].elts) = n
             /\ \A j \in 1..n : stack'[1].elts[j] = stack[n - j + 1]]_vars

\* the numbers of arguments of the calls
ArgCounts == 0..2

\* C15 (as claimed): CALL_FUNCTION n=p nkw=q that is not the materialization
\* of a class and is not the last instruction, on an operand stack of at
\* least p + 2q + 1 entries, pops the q keyword pairs (each value above its
\* name), the p positional arguments and the callee, and pushes one Call of
\* that callee: the operand stack is p + 2q entries shorter, every keyword
\* name is associated with the value pushed with it, and the positional
\* arguments are in source order (the argument pushed first is args[0]).
C15_CallArguments ==
    [][\A p \in ArgCounts, q \in ArgCounts :
         (/\ Running
          /\ Cur.opcode = "CALL_FUNCTION"
          /\ Cur.operands = NCALL(p, q)
          /\ C12_PlainCall(Cur, TopFrame.aux)
          /\ NextOpcode # "None"
          /\ Len(stack) >= p + 2 * q + 1) =>
           /\ status' = "lifting"
           /\ Len(stack') = Len(stack) - (p + 2 * q)
           /\ DropN(stack', 1) = DropN(stack, p + 2 * q + 1)
           /\ stack'[1].t = "Call"
           /\ stack'[1].func = stack[p + 2 * q + 1]
           /\ Len(stack'[1].keywords) = q
           /\ \A r \in 1..q : \E j \in 1..q :
                /\ stack'[1].keywords[j].key = stack[2 * r]
                /\ stack'[1].keywords[j].value = stack[2 * r - 1]
           /\ Len(stack'[1].args) = p
           /\ \A j \in 1..p : stack'[1].args[j] = stack[2 * q + p - j + 1]]_vars

\* C16 (as claimed): ROT_THREE on an operand stack of at least three entries
\* rotates the top three: the bottom one of the three moves to the top and
\* the other two shift down one position; ROT_TWO on at least two entries
\* swaps the top two.  The entries below, the depth of the stack and the
\* statement list are unchanged.
C16_Rotation ==
    [][(Running /\ Cur.opcode \in {"ROT_TWO", "ROT_THREE"}) =>
         /\ (Cur.opcode = "ROT_THREE" /\ Len(stack) >= 3) =>
              /\ status' = "lifting"
              /\ stack' = <<stack[3], stack[1], stack[2]>> \o DropN(stack, 3)
              /\ frames'[Len(frames)].tree = TopFrame.tree
         /\ (Cur.opcode = "ROT_TWO" /\ Len(stack) >= 2) =>
              /\ status' = "lifting"
              /\ stack' = <<stack[2], stack[1]>> \o DropN(stack, 2)
              /\ frames'[Len(frames)].tree = TopFrame.tree]_vars

\* the node is a FunctionDef or a ClassDef whose declared name is k
C17_DefNamed(n, k) ==
    \/ n.t = "FunctionDef" /\ n.name = k
    \/ n.t = "ClassDef" /\ n.name = PyStr(k)

\* C17 (as claimed): STORE_NAME k with an empty auxiliary stack pops the top
\* of the operand stack; a FunctionDef or ClassDef declared with the name k
\* goes to the statement list without an Assign wrapper (the FunctionDef is
\* appended; the ClassDef is already there or is appended); every other
\* value, a FunctionDef or ClassDef declared with another name included, is
\* appended as Assign([Name(k, Store)], value).
C17_NameKept ==
    [][(Running /\ Cur.opcode = "STORE_NAME" /\ TopFrame.aux = <<>> /\ stack # <<>>) =>
         LET f == frames'[Len(frames)]
             old == TopFrame.tree
             top == stack[1]
             k == Cur.operands
         IN  /\ status' = "lifting"
             /\ stack' = Pop(stack)
             /\ IF C17_DefNamed(top, k)
                THEN \/ f.tree = Append(old, top)
                     \/ top.t = "ClassDef" /\ f.tree = old
                ELSE /\ Len(f.tree) = Len(old) + 1
                     /\ SubSeq(f.tree, 1, Len(old)) = old
                     /\ f.tree[Len(f.tree)].t = "Assign"
                     /\ Len(f.tree[Len(f.tree)].targets) = 1
                     /\ f.tree[Len(f.tree)].targets[1].t = "Name"
                     /\ f.tree[Len(f.tree)].targets[1].id = k
                     /\ f.tree[Len(f.tree)].targets[1].ctx = "Store"
                     /\ f.tree[Len(f.tree)].value = top]_vars

\* an entry of the auxiliary stack that is not an import marker: the exit
\* offset FOR_ITER recorded, or the BUILD_CLASS sentinel
C18_NonImportMarker(v) == v.k = "int" \/ v = PyStr(BuildClassText)

\* C18 (as claimed): STORE_NAME k of an ordinary value (not an import, a
\* function or a class) while the auxiliary stack holds markers none of which
\* is an import marker does not raise: it pops the value, appends
\* Assign([Name(k, Store)], value) and leaves the auxiliary stack unchanged.
C18_ImportPathOnlyForImports ==
    [][(/\ Running
        /\ Cur.opcode = "STORE_NAME"
        /\ TopFrame.aux # <<>>
        /\ \A j \in 1..Len(TopFrame.aux) : C18_NonImportMarker(TopFrame.aux[j])
        /\ stack # <<>>
        /\ stack[1].t \notin {"Import", "ImportFrom", "FunctionDef", "ClassDef"}) =>
         LET f == frames'[Len(frames)]
             old == TopFrame.tree
         IN  /\ status' = "lifting"
             /\ stack' = Pop(stack)
             /\ f.aux = TopFrame.aux
             /\ Len(f.tree) = Len(old) + 1
             /\ SubSeq(f.tree, 1, Len(old)) = old
             /\ f.tree[Len(f.tree)].t = "Assign"
             /\ f.tree[Len(f.tree)].targets[1].id = Cur.operands
             /\ f.tree[Len(f.tree)].value = stack[1]]_vars

\* the comparison tags with the operator each stands for
C19_Comparisons ==
    {<<Dunder(<<"g", "t">>), "Gt">>, <<Dunder(<<"l", "t">>), "Lt">>,
     <<Dunder(<<"e", "q">>), "Eq">>, <<Dunder(<<"g", "e">>), "GtE">>,
     <<Dunder(<<"l", "e">>), "LtE">>, <<Dunder(<<"n", "e">>), "NotEq">>}

\* the arithmetic tags with the operator each stands for
C19_Arithmetic ==
    {<<Dunder(<<"a", "d", "d">>), "Add">>, <<Dunder(<<"i", "a", "d", "d">>), "Add">>,
     <<Dunder(<<"s", "u", "b">>), "Sub">>, <<Dunder(<<"i", "s", "u", "b">>), "Sub">>}

\* C19 (as claimed): BINARY_OP "<n> <tag>" on an operand stack that holds its
\* operands replaces them by exactly one node.  For a comparison tag it pops
\* n right-hand expressions and one left and pushes a Compare of that left
\* with the tag's operator and the n comparators; for an arithmetic tag it
\* pops right, then left, and pushes BinOp(left, op, right) with Add for
\* __add__ and __iadd__ and Sub for __sub__ and __isub__.
C19_BinaryOp ==
    [][(/\ Running
        /\ Cur.opcode = "BINARY_OP"
        /\ Len(SplitWs(Cur.operands)) = 2
        /\ IsInt(SplitWs(Cur.operands)[1])
        /\ IntOf(SplitWs(Cur.operands)[1]) >= 0) =>
         LET n == IntOf(SplitWs(Cur.operands)[1])
             tag == SplitWs(Cur.operands)[2]
         IN  /\ \A c \in C19_Comparisons :
                  (tag = c[1] /\ Len(stack) >= n + 1) =>
                    /\ status' = "lifting"
                    /\ Len(stack') = Len(stack) - n
                    /\ DropN(stack', 1) = DropN(stack, n + 1)
                    /\ stack'[1].t = "Compare"
                    /\ stack'[1].left = stack[n + 1]
                    /\ stack'[1].ops = <<c[2]>>
                    /\ Len(stack'[1].comparators) = n
                    /\ \A j \in 1..n : \E i \in 1..n : stack'[1].comparators[i] = stack[j]
             /\ \A a \in C19_Arithmetic :
                  (tag = a[1] /\ Len(stack) >= 2) =>
                    /\ status' = "lifting"
                    /\ Len(stack') = Len(stack) - 1
                    /\ DropN(stack', 1) = DropN(stack, 2)
                    /\ stack'[1].t = "BinOp"
                    /\ stack'[1].left = stack[2]
                    /\ stack'[1].op = a[2]
                    /\ stack'[1].right = stack[1]]_vars

\* the number of instructions of c that produce a statement of their own
C20_Statements(c) ==
    Cardinality({i \in 1..Len(c) :
                   c[i].opcode \in {"STORE_NAME", "STORE_FAST", "STORE_ATTR", "RETURN_VALUE"}})

\* C20 (as claimed): a lift leaves the loop over its block's instructions
\* only after the last instruction, also when the block holds a
\* GET_ITER_STACK or a POP_JUMP_IF_TRUE; so the lift of `if not a: b = 42`
\* and of `for b in a: pass` returns one statement for every store and
\* return of the block.
C20_WalksEveryInstruction ==
    /\ status = "lifting" =>
         \A j \in 1..Len(frames) :
           frames[j].brk => frames[j].pc > Len(BlockOf(blocks, frames[j].desc).code)
    /\ (status = "returned" /\ result.kind = "source" /\ blocks \in Branching) =>
         Len(result.statements) = C20_Statements(blocks[1].code)

(***************************************************************************)
(* Claims about main() of src/main.py, checked under SpecMain.             *)
(***************************************************************************)
\* the instruction at hand is self.stack.pop() on the empty operand stack
AtEmptyPop ==
    /\ status \in {"lifting", "raised"}
    /\ frames # <<>>
    /\ ~TopFrame.brk
    /\ TopFrame.pc <= Len(CurCode)
    /\ Cur.opcode \in {"POP_TOP", "RETURN_VALUE"}
    /\ stack = <<>>

\* C7 (as claimed): a pop from the empty operand stack while main() lifts a
\* module is a failure of that module: the exception does not leave main(),
\* which goes on with the remaining modules.  Stated for the modules the VM's
\* compiler emits.
C7_UnderflowIsModuleFailure ==
    (fidx > 0 /\ blocks \in Emitted /\ AtEmptyPop) => status # "raised"

\* C8 (as claimed): a MAKE_FUNCTION whose descriptor is absent from the parsed
\* blocks is a failure of that module only: no exception leaves main().
C8_MissingDescriptorIsModuleFailure ==
    (fidx > 0 /\ MissingDescriptor(blocks)) => status # "raised"

(***************************************************************************)
(* src/Decompiler.py: the basic-block splitter (pass_0) and the second     *)
(* lifter (pass_1, do_cb, do_bb).                                          *)
(*                                                                         *)
(* A parsed code block is what from_parsed_code_block reads of it:         *)
(*   [desc, name, source_file, args, bytecode, line_info]                  *)
(* with bytecode the tuples (offset, opcode, operands) in order and        *)
(* line_info a function from offsets to line numbers.  The offsets of a    *)
(* block are distinct, so the dict of Bytecode keeps the order of the      *)
(* tuples.  A lineno of None is <<>>, a lineno n is <<n>>.                 *)
(***************************************************************************)
\* jmp_targets.append(9999)
Sentinel == 9999

\* the text "L"
LabelPrefix == <<"L">>

\* f"L{n}"
Label(n) == LabelPrefix \o StrOfInt(n)

BasicBlock(label, bytecode) == [label |-> label, bytecode |-> bytecode]

\* CodeBlock.from_parsed_code_block
from_parsed_code_block(cb) ==
    LET bc == [i \in 1..Len(cb.bytecode) |->
                 [offset |-> cb.bytecode[i].offset,
                  opcode |-> cb.bytecode[i].opcode,
                  operands |-> cb.bytecode[i].operands,
                  lineno |-> IF cb.bytecode[i].offset \in DOMAIN cb.line_info
                             THEN <<cb.line_info[cb.bytecode[i].offset]>>
                             ELSE <<>>]]
    IN  [desc |-> cb.desc, name |-> cb.name, source |-> cb.source_file, args |-> cb.args,
         blocks |-> <<BasicBlock(Label(0), bc)>>, line_info |-> cb.line_info]

\* the opcodes of the model that satisfy "JUMP" in bc.opcode
JumpFamily == {"JUMP", "UNWIND_JUMP", "POP_JUMP_IF_TRUE", "POP_JUMP_IF_FALSE"}

\* the first loop of pass_0 over one instruction: the targets it adds to
\* jmp_targets, or the exception int() or targets[1] raises
TargetsOf(bc) ==
    IF bc.opcode = "UNWIND_JUMP" THEN
      LET targets == SplitWs(bc.operands)
      IN  IF Len(targets) = 0 THEN [err |-> "IndexError", add |-> {}]
          ELSE IF ~IsInt(targets[1]) THEN [err |-> "ValueError", add |-> {}]
          ELSE IF Len(targets) = 1 THEN [err |-> "IndexError", add |-> {}]
          ELSE IF ~IsInt(targets[2]) THEN [err |-> "ValueError", add |-> {}]
          ELSE [err |-> "", add |-> {IntOf(targets[1]), IntOf(targets[2])}]
    ELSE IF bc.opcode \in JumpFamily THEN
      IF ~IsInt(bc.operands) THEN [err |-> "ValueError", add |-> {}]
      ELSE [err |-> "", add |-> {IntOf(bc.operands)}]
    ELSE [err |-> "", add |-> {}]

\* jmp_targets after the first loop, or the first exception
RECURSIVE JumpTargets(_, _, _)
JumpTargets(bcs, k, acc) ==
    IF k > Len(bcs) THEN [err |-> "", set |-> acc]
    ELSE LET r == TargetsOf(bcs[k])
         IN  IF r.err # "" THEN [err |-> r.err, set |-> acc]
             ELSE JumpTargets(bcs, k + 1, acc \cup r.add)

\* sorted(S)
RECURSIVE Sorted(_)
Sorted(S) ==
    IF S = {} THEN <<>>
    ELSE LET m == CHOOSE x \in S : \A y \in S : x <= y
         IN  <<m>> \o Sorted(S \ {m})

\* the second loop of pass_0 from the k-th instruction on: jt is jmp_targets,
\* i its index (from 0), cur the dict bytecodes, out the list blocks
RECURSIVE SplitLoop(_, _, _, _, _, _)
SplitLoop(bcs, k, jt, i, cur, out) ==
    IF k > Len(bcs) THEN out
    ELSE IF i = Len(jt) - 1 THEN Append(out, BasicBlock(Label(jt[i]), cur))
    ELSE LET start == jt[i + 1]
             stop == jt[i + 2]
         IN  IF start <= bcs[k].offset /\ bcs[k].offset < stop
             THEN SplitLoop(bcs, k + 1, jt, i, Append(cur, bcs[k]), out)
             ELSE SplitLoop(bcs, k + 1, jt, i + 1, <<bcs[k]>>,
                            Append(out, BasicBlock(Label(start), cur)))

\* not the code: a code block without jump targets is split like any other
SplitCodeBlock_NoSkip(codeblock) ==
    IF codeblock.blocks = <<>> THEN [err |-> "IndexError", cb |-> codeblock]
    ELSE LET block_0 == codeblock.blocks[1]
             t == JumpTargets(block_0.bytecode, 1, {})
         IN  IF t.err # "" THEN [err |-> t.err, cb |-> codeblock]
             ELSE LET jmp_targets == <<0>> \o Sorted(t.set) \o <<Sentinel>>
                  IN  [err |-> "",
                       cb |-> [codeblock EXCEPT !.blocks =
                                 SplitLoop(block_0.bytecode, 1, jmp_targets, 0, <<>>, <<>>)]]

\* the body of pass_0's loop for one code block: the code block afterwards,
\* or the exception raised
SplitCodeBlock(codeblock) ==
    IF codeblock.blocks = <<>> THEN [err |-> "IndexError", cb |-> codeblock]
    ELSE LET block_0 == codeblock.blocks[1]
             t == JumpTargets(block_0.bytecode, 1, {})
         IN  IF t.err # "" THEN [err |-> t.err, cb |-> codeblock]
             ELSE IF t.set = {} THEN [err |-> "", cb |-> codeblock]
             ELSE LET jmp_targets == <<0>> \o Sorted(t.set) \o <<Sentinel>>
                  IN  [err |-> "",
                       cb |-> [codeblock EXCEPT !.blocks =
                                 SplitLoop(block_0.bytecode, 1, jmp_targets, 0, <<>>, <<>>)]]

\* pass_0 from the k-th code block on
RECURSIVE SplitAll(_, _)
SplitAll(cbs, k) ==
    IF k > Len(cbs) THEN [err |-> "", cbs |-> cbs]
    ELSE LET r == SplitCodeBlock(cbs[k])
         IN  IF r.err # "" THEN [err |-> r.err, cbs |-> cbs]
             ELSE SplitAll([cbs EXCEPT ![k] = r.cb], k + 1)

\* the first loop of get_lines: the Bytecodes before the first one that has
\* a line number
RECURSIVE LeadingNoLine(_, _)
LeadingNoLine(bcs, k) ==
    IF k > Len(bcs) \/ bcs[k].lineno # <<>> THEN <<>>
    ELSE <<bcs[k]>> \o LeadingNoLine(bcs, k + 1)

\* the entries of the list get_lines returns
LineItem(bcs) == [k |-> "line", bcs |-> bcs]
BcItem(bc) == [k |-> "bc", bc |-> bc]

\* the second loop of get_lines from the k-th Bytecode on: ll is the list of
\* the line at hand (has is FALSE while ll is None), l the result so far
RECURSIVE LinesLoop(_, _, _, _, _, _)
LinesLoop(bcs, k, i, ll, has, l) ==
    IF k > Len(bcs) THEN [err |-> "", items |-> l]
    ELSE IF bcs[k].offset < i THEN LinesLoop(bcs, k + 1, i, ll, has, l)
    ELSE IF bcs[k].lineno # <<>>
         THEN LinesLoop(bcs, k + 1, i, <<bcs[k]>>, TRUE,
                        IF has THEN Append(l, LineItem(ll)) ELSE l)
    ELSE IF ~has THEN [err |-> "AttributeError", items |-> l]
    ELSE LinesLoop(bcs, k + 1, i, Append(ll, bcs[k]), has, l)

\* BasicBlock.get_lines
get_lines(bcs) ==
    LET lead == LeadingNoLine(bcs, 1)
        i == IF lead = <<>> THEN 0 ELSE lead[Len(lead)].offset
    IN  LinesLoop(bcs, 1, i, <<>>, FALSE, [j \in 1..Len(lead) |-> BcItem(lead[j])])

\* the nodes do_bb makes: ast.Num and ast.Str make Constant nodes
DConstant(v) == [t |-> "Constant", value |-> v]
DTuple(l) == [t |-> "Tuple", elts |-> l]
DImport(names) == [t |-> "Import", names |-> names]

\* the decompiler's mutable state while do_bb runs
DMach(b, body, e) == [buf |-> b, body |-> body, err |-> e]

DRaise(d, e) == DMach(d.buf, d.body, e)

\* l.insert(0, self.stack.pop()) n times: the list, the stack left, and
\* whether a pop found the stack empty
RECURSIVE PopInto(_, _, _)
PopInto(b, n, l) ==
    IF n <= 0 THEN [buf |-> b, l |-> l, ok |-> TRUE]
    ELSE IF b = <<>> THEN [buf |-> b, l |-> l, ok |-> FALSE]
    ELSE PopInto(Tail(b), n - 1, <<Head(b)>> \o l)

\* one Bytecode of a line: the match statement of do_bb
DoBytecode(bc, d) ==
    IF bc.opcode = "LOAD_CONST_SMALL_INT" THEN
      IF ~IsInt(bc.operands) THEN DRaise(d, "ValueError")
      ELSE DMach(<<DConstant(PyInt(IntOf(bc.operands)))>> \o d.buf, d.body, "")
    ELSE IF bc.opcode = "LOAD_CONST_NONE" THEN
      DMach(<<DConstant(PyNone)>> \o d.buf, d.body, "")
    ELSE IF bc.opcode = "LOAD_CONST_STRING" THEN
      DMach(<<DConstant(PyStr(Strip1(bc.operands)))>> \o d.buf, d.body, "")
    ELSE IF bc.opcode = "BUILD_TUPLE" THEN
      IF ~IsInt(bc.operands) THEN DRaise(d, "ValueError")
      ELSE LET r == PopInto(d.buf, IntOf(bc.operands), <<>>)
           IN  IF ~r.ok THEN DMach(r.buf, d.body, "IndexError")
               ELSE DMach(<<DTuple(r.l)>> \o r.buf, d.body, "")
    ELSE IF bc.opcode = "IMPORT_NAME" THEN
      IF Len(d.buf) < 2 THEN DMach(<<>>, d.body, "IndexError")
      ELSE LET fromlist == d.buf[1]
               rest == SubSeq(d.buf, 3, Len(d.buf))
               name == Strip1(bc.operands)
           IN  IF fromlist.t = "Tuple" THEN
                 IF \E j \in 1..Len(fromlist.elts) : fromlist.elts[j].t # "Constant"
                 THEN DMach(rest, d.body, "AttributeError")
                 ELSE DMach(<<DImport([j \in 1..Len(fromlist.elts) |->
                                         Alias(fromlist.elts[j].value)])>> \o rest,
                            d.body, "")
               ELSE DMach(<<DImport(<<Alias(PyStr(name))>>)>> \o rest, d.body, "")
    ELSE IF bc.opcode = "IMPORT_FROM" THEN d
    ELSE IF bc.opcode = "STORE_NAME" THEN
      IF d.buf = <<>> THEN DRaise(d, "IndexError")
      ELSE LET val == d.buf[1]
               rest == Tail(d.buf)
           IN  IF val.t = "Import" THEN
                 IF val.names = <<>> THEN DMach(rest, d.body, "IndexError")
                 ELSE LET save_as == val.names[1].name
                          named == IF ~PyEq(save_as, PyStr(bc.operands))
                                   THEN [val EXCEPT !.names[1].asname = PyStr(bc.operands)]
                                   ELSE val
                      IN  DMach(rest, Append(d.body, named), "")
               ELSE DMach(rest, d.body, "")
    ELSE d

\* ast.unparse(self.module) raises TypeError: an alias whose name is no str
Unparsable(body) ==
    \E j \in 1..Len(body) : \E a \in 1..Len(body[j].names) : body[j].names[a].name.k # "str"

\* print(ast.unparse(self.module)) after the match statement
Unparse(d) == IF d.err = "" /\ Unparsable(d.body) THEN DRaise(d, "TypeError") ELSE d

\* for bc in l_or_bc, from the k-th Bytecode on
RECURSIVE DoLine(_, _, _)
DoLine(bcs, k, d) ==
    IF k > Len(bcs) \/ d.err # "" THEN d
    ELSE DoLine(bcs, k + 1, Unparse(DoBytecode(bcs[k], d)))

\* for l_or_bc in lines, from the k-th entry on
RECURSIVE DoItems(_, _, _)
DoItems(items, k, d) ==
    IF k > Len(items) \/ d.err # "" THEN d
    ELSE DoItems(items, k + 1,
                 IF items[k].k = "line" THEN DoLine(items[k].bcs, 1, d) ELSE d)

\* blocks[n] of a Python list: the index from 1, or 0 for IndexError
ListIndex(l, n) ==
    IF 0 <= n /\ n < Len(l) THEN n + 1
    ELSE IF n < 0 /\ 0 - n <= Len(l) THEN Len(l) + n + 1
    ELSE 0

\* do_bb(desc, bb_label)
do_bb(codeblock, bb_label, d) ==
    LET j == ListIndex(codeblock.blocks, bb_label)
    IN  IF j = 0 THEN DRaise(d, "IndexError")
        ELSE LET lines == get_lines(codeblock.blocks[j].bytecode)
             IN  IF lines.err # "" THEN DRaise(d, lines.err)
                 ELSE DoItems(lines.items, 1, d)

\* the loop of do_cb from the k-th basic block on:
\* self.do_bb(desc, int(bb.label[1:]), depth)
RECURSIVE do_cb(_, _, _)
do_cb(codeblock, k, d) ==
    IF k > Len(codeblock.blocks) \/ d.err # "" THEN d
    ELSE do_cb(codeblock, k + 1,
               do_bb(codeblock, IntOf(Drop1(codeblock.blocks[k].label)), d))

(***************************************************************************)
(* The parsed blocks the decompiler of src/Decompiler.py is made from.     *)
(***************************************************************************)
\* a tuple (offset, opcode, operands) of ParsedCodeBlock.bytecode
ParsedBytecode(c, stride) ==
    [i \in 1..Len(c) |-> [offset |-> stride * (i - 1), opcode |-> c[i].opcode,
                          operands |-> c[i].operands]]

Parsed(desc, name, bytecode, line_info) ==
    [desc |-> desc, name |-> name, source_file |-> <<"m", ".", "p", "y">>, args |-> <<>>,
     bytecode |-> bytecode, line_info |-> line_info]

\* the instructions the arbitrary sequences given to the splitter are made
\* of: one that does not jump, and jumps to the targets up to T
DAlphabet(T) ==
    {I("LOAD_CONST_NONE", <<>>)}
      \cup {I("JUMP", StrOfInt(t)) : t \in 0..T}
      \cup {I("POP_JUMP_IF_FALSE", StrOfInt(t)) : t \in {0, T}}
      \cup {I("UNWIND_JUMP", StrOfInt(t[1]) \o <<" ">> \o StrOfInt(t[2])) :
              t \in {<<0, 2>>, <<T, 1>>}}

\* line_info of a block whose first instruction begins line 1
FirstLine(c) == IF c = <<>> THEN <<>> ELSE (0 :> 1)

\* every module of one code block whose instructions are a sequence over
\* the alphabet of length at most n, at offsets 0, 1, 2.. or 0, 2, 4..
ArbParsed(n, T) ==
    {<<Parsed(<<"t">>, ModuleName, ParsedBytecode(c, stride), FirstLine(c))>> :
        c \in SeqsUpTo(DAlphabet(T), n), stride \in {1, 2}}

\* the concatenation of a sequence of sequences
RECURSIVE Flatten(_)
Flatten(ls) == IF ls = <<>> THEN <<>> ELSE Head(ls) \o Flatten(Tail(ls))

\* the offset at which the k-th line of ls begins
LineStart(ls, k) == 2 * Len(Flatten(SubSeq(ls, 1, k - 1)))

\* a code block of the source lines ls, the k-th on line k
ParsedLines(desc, name, ls) ==
    Parsed(desc, name, ParsedBytecode(Flatten(ls), 2),
           [o \in {LineStart(ls, k) : k \in 1..Len(ls)} |->
              CHOOSE k \in 1..Len(ls) : LineStart(ls, k) = o /\ ls[k] # <<>>])

\* from m import a
EmitFrom1 ==
    <<I("LOAD_CONST_SMALL_INT", <<"0">>), I("LOAD_CONST_STRING", Q(<<"a">>)),
      I("BUILD_TUPLE", <<"1">>), I("IMPORT_NAME", Q(<<"m">>)),
      I("IMPORT_FROM", Q(<<"a">>)), I("STORE_NAME", <<"a">>), I("POP_TOP", <<>>)>>

\* the statements the modules below are made of
DStatements ==
    {EmitImport(<<"m">>, <<"m">>), EmitImport(<<"m">>, <<"a">>), EmitFrom1,
     EmitAssign(<<"a">>)}

\* the lines of a module: the statements, the last followed by the return
WithRet(ls) == [ls EXCEPT ![Len(ls)] = @ \o Ret]

\* if a: import m
EmitIfImport ==
    << <<I("LOAD_NAME", <<"a">>), I("POP_JUMP_IF_FALSE", <<"1", "2">>)>>,
       EmitImport(<<"m">>, <<"m">>) \o Ret >>

\* while True: pass
EmitLoop == << <<I("JUMP", <<"0">>)>>, Ret >>

\* modules as the VM's compiler emits them
DEmitted ==
    {<<ParsedLines(<<"t">>, ModuleName, WithRet(ls))>> :
        ls \in SeqsUpTo(DStatements, 2) \ {<<>>}}
      \cup {<<ParsedLines(<<"t">>, ModuleName, EmitIfImport)>>,
            <<ParsedLines(<<"t">>, ModuleName, EmitLoop)>>,
            <<ParsedLines(<<"t">>, ModuleName, WithRet(<<EmitDefCall>>)),
              ParsedLines(<<"f">>, <<"f">>, EmitLoop)>>,
            <<ParsedLines(<<"f">>, <<"f">>, EmitLoop)>>}

DPrograms == ArbParsed(MaxDLen, MaxTarget) \cup DEmitted

(***************************************************************************)
(* SpecD: a decompiler of src/Decompiler.py.                               *)
(*                                                                         *)
(* status: "new"          uDecompiler(blocks_in) is about to be made       *)
(*         "constructed"  __init__ has returned                            *)
(*         "split"        pass_0 has returned                              *)
(*         "lifted"       pass_1 has returned                              *)
(*         "raised"       an exception err has been raised                 *)
(***************************************************************************)
\* uDecompiler.__init__
D_init ==
    /\ status = "new"
    /\ cblocks' = [i \in 1..Len(blocks_in) |-> from_parsed_code_block(blocks_in[i])]
    /\ LET td == TopDesc(blocks_in, ModuleName)
       IN  IF td.found
           THEN top_desc' = td.desc /\ status' = "constructed" /\ err' = err
           ELSE top_desc' = top_desc /\ status' = "raised" /\ err' = "AttributeError"
    /\ module_body' = <<>>
    /\ UNCHANGED <<blocks_in, buf, lifted, mainVars, lifterVars, parserVars>>

\* uDecompiler.pass_0; decompile() runs it before every pass_1
D_pass_0 ==
    /\ status \in {"constructed", "lifted"}
    /\ Len(lifted) < MaxRuns
    /\ LET r == SplitAll(cblocks, 1)
       IN  /\ cblocks' = r.cbs
           /\ IF r.err # ""
              THEN status' = "raised" /\ err' = r.err
              ELSE status' = "split" /\ err' = err
    /\ UNCHANGED <<blocks_in, top_desc, buf, module_body, lifted, mainVars, lifterVars, parserVars>>

\* uDecompiler.pass_1: do_cb() and print(ast.unparse(self.module))
D_pass_1 ==
    /\ status \in {"split", "lifted"}
    /\ Len(lifted) < MaxRuns
    /\ LET r == Unparse(do_cb(BlockOf(cblocks, top_desc), 1, DMach(buf, module_body, "")))
       IN  /\ buf' = r.buf
           /\ module_body' = r.body
           /\ IF r.err # ""
              THEN status' = "raised" /\ err' = r.err /\ lifted' = lifted
              ELSE status' = "lifted" /\ err' = err /\ lifted' = Append(lifted, r.body)
    /\ UNCHANGED <<blocks_in, cblocks, top_desc, mainVars, lifterVars, parserVars>>

InitD ==
    /\ files = <<>>
    /\ fidx = 0
    /\ outs = <<>>
    /\ status = "new"
    /\ blocks = <<>>
    /\ stack = <<>>
    /\ frames = <<>>
    /\ heap = <<>>
    /\ nid = 0
    /\ err = ""
    /\ result = NoResult
    /\ blocks_in \in DPrograms
    /\ cblocks = <<>>
    /\ top_desc = <<>>
    /\ buf = <<>>
    /\ module_body = <<>>
    /\ lifted = <<>>
    /\ ParserIdle

NextD == D_init \/ D_pass_0 \/ D_pass_1

SpecD == InitD /\ [][NextD]_vars

(***************************************************************************)
(* Claims about src/Decompiler.py, checked under SpecD.                    *)
(***************************************************************************)
\* the instruction list of the i-th code block as it was given to pass_0
Original(i) == from_parsed_code_block(blocks_in[i]).blocks[1].bytecode

\* pass_0 has returned from its first run, on a module the compiler emits
SplitOnce == status = "split" /\ lifted = <<>> /\ blocks_in \in DEmitted

\* C2 (as claimed): after pass_0 the instructions of the basic blocks of
\* every code block, taken in block order, are the code block's instruction
\* list: none is missing and none appears twice.
C2_PartitionTotality ==
    SplitOnce =>
      \A i \in 1..Len(cblocks) :
        Flatten([j \in 1..Len(cblocks[i].blocks) |-> cblocks[i].blocks[j].bytecode])
          = Original(i)

\* C3 (as claimed): after pass_0, every target of a jump instruction that is
\* the offset of an instruction of the code block is the label of a basic
\* block whose first instruction has that offset.
C3_JumpClosure ==
    SplitOnce =>
      \A i \in 1..Len(cblocks) :
        \A t \in JumpTargets(Original(i), 1, {}).set :
          (\E k \in 1..Len(Original(i)) : Original(i)[k].offset = t) =>
            \E j \in 1..Len(cblocks[i].blocks) :
              LET bb == cblocks[i].blocks[j]
              IN  /\ bb.label = <<"L">> \o StrOfInt(t)
                  /\ bb.bytecode # <<>>
                  /\ bb.bytecode[1].offset = t

\* C4 (as claimed): after pass_0 every basic block holds at least one
\* instruction.
C4_NoEmptyBlock ==
    SplitOnce =>
      \A i \in 1..Len(cblocks) :
        \A j \in 1..Len(cblocks[i].blocks) : cblocks[i].blocks[j].bytecode # <<>>

\* C6 (as claimed): the second run of the lifter on a decompiler yields the
\* statement list the first run yielded.  Stated for the modules the VM's
\* compiler emits.
C6_LiftDeterminism ==
    (Len(lifted) >= 2 /\ blocks_in \in DEmitted) => lifted[2] = lifted[1]

\* no instruction of the list is of the JUMP family
JumpFree(bcs) == \A k \in 1..Len(bcs) : bcs[k].opcode \notin JumpFamily

\* C21: once pass_0 has returned, every code block without an instruction of
\* the JUMP family has exactly one basic block, labelled L0, that holds all
\* the instructions of the code block in their original order.
C21_SingleBlock ==
    status \in {"split", "lifted"} =>
      \A i \in 1..Len(cblocks) :
        JumpFree(Original(i)) =>
          /\ Len(cblocks[i].blocks) = 1
          /\ cblocks[i].blocks[1].label = <<"L", "0">>
          /\ cblocks[i].blocks[1].bytecode = Original(i)

\* C21: pass_0 has returned on a module that has a code block of several
\* instructions without a jump and a code block with a jump
C21_Witness ==
    /\ status = "split"
    /\ \E i, j \in 1..Len(cblocks) :
         /\ JumpFree(Original(i))
         /\ Len(Original(i)) >= 2
         /\ Len(cblocks[i].blocks) = 1
         /\ ~JumpFree(Original(j))

\* the list entry do_bb looks up for the k-th basic block of the code block:
\* current_cblock.blocks[int(bb.label[1:])], 0 when the lookup fails
C24_Lookup(codeblock, k) ==
    ListIndex(codeblock.blocks, IntOf(Drop1(codeblock.blocks[k].label)))

\* C24 (as claimed): when pass_0 has returned, do_cb on the top code block
\* finds for every basic block of the list, whatever the length of the list,
\* that very basic block: no lookup fails and none yields another block, so
\* every basic block is lifted exactly once, in list order.
C24_EveryBlockOnce ==
    status = "split" =>
      LET cb == BlockOf(cblocks, top_desc)
      IN  \A k \in 1..Len(cb.blocks) : C24_Lookup(cb, k) = k

\* the instructions of an entry of the list get_lines returns
C25_ItemSeq(item) == IF item.k = "line" THEN item.bcs ELSE <<item.bc>>

\* the entries are single instructions without a line number, then groups,
\* each begun by the one instruction of the group that has a line number
C25_Shape(items) ==
    \A j \in 1..Len(items) :
      IF items[j].k = "bc"
      THEN /\ items[j].bc.lineno = <<>>
           /\ \A h \in 1..(j - 1) : items[h].k = "bc"
      ELSE /\ items[j].bcs # <<>>
           /\ \A h \in 1..Len(items[j].bcs) : (items[j].bcs[h].lineno # <<>>) <=> (h = 1)

\* C25 (as claimed): when pass_0 has returned, get_lines on every basic block
\* of the top code block returns without error, whether or not the block's
\* first instruction has a line number, and what it returns is a partition
\* of the block's instructions in offset order: the leading instructions
\* without a line number as single entries, then one group per instruction
\* that has a line number, none dropped (those of the last line included)
\* and none twice; so do_bb dispatches every instruction exactly once.
C25_LinesPartition ==
    status = "split" =>
      LET cb == BlockOf(cblocks, top_desc)
      IN  \A k \in 1..Len(cb.blocks) :
            LET r == get_lines(cb.blocks[k].bytecode)
            IN  /\ r.err = ""
                /\ C25_Shape(r.items)
                /\ Flatten([j \in 1..Len(r.items) |-> C25_ItemSeq(r.items[j])])
                     = cb.blocks[k].bytecode

\* C26 (as claimed): lifting terminates. The activations of pass_0 nested in
\* one another lift distinct code blocks, so their number never exceeds the
\* number of blocks of the descriptor map, and no lift ends with the call
\* depth of the interpreter exhausted, also when a MAKE_FUNCTION operand
\* names the block that holds it.
C26_LiftTerminates ==
    /\ status = "lifting" =>
         \A i, j \in 1..Len(frames) : frames[i].desc = frames[j].desc => i = j
    /\ status = "raised" => err # "RecursionError"

(***************************************************************************)
(* SpecP: uDecompiler.disassemble of src/main.py, the parser of the        *)
(* disassembler's output.                                                  *)
(*                                                                         *)
(* A line is a sequence of characters.  blocks is self.blocks in insertion *)
(* order; a code block is [name, source, desc, args, code], code being the *)
(* dict's Bytecode values [offset, opcode, operands, lineno] in insertion  *)
(* order.                                                                  *)
(*                                                                         *)
(* status: "disassemble"  in the for loop over output                      *)
(*         "parsed"       disassemble has returned                         *)
(*         "raised"       an exception err has left disassemble            *)
(***************************************************************************)
\* s.strip() and s.startswith(p)
RECURSIVE LStrip(_)
LStrip(s) == IF s # <<>> /\ s[1] = " " THEN LStrip(Tail(s)) ELSE s

RECURSIVE RStrip(_)
RStrip(s) == IF s # <<>> /\ s[Len(s)] = " " THEN RStrip(SubSeq(s, 1, Len(s) - 1)) ELSE s

Strip(s) == RStrip(LStrip(s))

StartsWith(s, p) == Len(s) >= Len(p) /\ SubSeq(s, 1, Len(p)) = p

\* s[n:]
From(s, n) == SubSeq(s, n + 1, Len(s))

MemText == <<"m", "e", "m">>

RawText == <<"R", "a", "w", " ", "b", "y", "t", "e", "c", "o", "d", "e">>

FileText == <<"F", "i", "l", "e">>

ArgNamesText == <<"a", "r", "g", " ", "n", "a", "m", "e", "s", ":">>

Bytecode(offset, opcode, operands, lineno) ==
    [offset |-> offset, opcode |-> opcode, operands |-> operands, lineno |-> lineno]

CodeBlock(name, source, desc, args, code) ==
    [name |-> name, source |-> source, desc |-> desc, args |-> args, code |-> code]

\* CodeBlock.add_bytecode: self.code[b.offset] = b
add_bytecode(cb, b) ==
    [cb EXCEPT !.code =
       IF \E i \in 1..Len(@) : @[i].offset = b.offset
       THEN [i \in 1..Len(@) |-> IF @[i].offset = b.offset THEN b ELSE @[i]]
       ELSE Append(@, b)]

\* self.blocks[cb.desc] = cb
StoreBlock(bs, cb) ==
    IF HasBlock(bs, cb.desc)
    THEN [i \in 1..Len(bs) |-> IF bs[i].desc = cb.desc THEN cb ELSE bs[i]]
    ELSE Append(bs, cb)

\* a change of the loop that never stores the block in progress
AfterLoop_DropsLast(bs, cur) == bs

\* after the loop: if current_block is not None, store it
AfterLoop(bs, cur) == IF cur # <<>> THEN StoreBlock(bs, cur[1]) ELSE bs

\* lineinfo[bc] = line
SetLine(li, bc, line) ==
    [b \in (DOMAIN li) \cup {bc} |-> IF b = bc THEN line ELSE li[b]]

\* the branch of the loop body a line takes
Kind(line) ==
    IF StartsWith(line, MemText) THEN "mem"
    ELSE IF Strip(line) = <<>> THEN "blank"
    ELSE IF line[1] = "(" \/ StartsWith(line, RawText) THEN "skipped"
    ELSE IF StartsWith(line, <<" ", " ">>) THEN "lineinfo"
    ELSE IF line[1] = " " THEN "indented"
    ELSE IF StartsWith(Strip(line), FileText) THEN "file"
    ELSE IF StartsWith(Strip(line), ArgNamesText) THEN "args"
    ELSE IF IsInt(SplitWs(Strip(line))[1]) THEN "instruction"
    ELSE "continuation"

\* line.split("'")[1] and line.split()[6][:-1] of a File line; both raise
\* IndexError on a line with too few fields
HeaderOk(line) == Len(SplitOn(line, "'")) >= 2 /\ Len(SplitWs(line)) >= 7

block_name(line) == SplitOn(line, "'")[2]

block_desc(line) == LET f == SplitWs(line)[7] IN SubSeq(f, 1, Len(f) - 1)

source_name(line) == SplitOn(From(line, 5), ",")[1]

\* int(parts[k].split('=')[1]) of a line information row: "" when it is a
\* number, else the exception
FieldErr(parts, k) ==
    IF Len(parts) < k THEN "IndexError"
    ELSE IF Len(SplitOn(parts[k], "=")) < 2 THEN "IndexError"
    ELSE IF ~IsInt(SplitOn(parts[k], "=")[2]) THEN "ValueError"
    ELSE ""

Field(parts, k) == IntOf(SplitOn(parts[k], "=")[2])

\* the loop has a line left
InLoop == status = "disassemble" /\ lno < Len(output)

\* line of "for line in output"
Line == output[lno + 1]

AtKind(k) == InLoop /\ Kind(Line) = k

Continue == lno' = lno + 1 /\ status' = status /\ err' = err

Raise(e) == lno' = lno /\ status' = "raised" /\ err' = e

otherVars == <<mainVars, stack, frames, heap, nid, result, decVars>>

\* if line.startswith("mem"): break, then the store after the loop
P_Mem ==
    /\ AtKind("mem")
    /\ blocks' = AfterLoop(blocks, current_block)
    /\ status' = "parsed"
    /\ UNCHANGED <<output, lno, lineinfo, current_block, err, otherVars>>

\* if len(line.strip()) == 0: continue
P_Blank ==
    /\ AtKind("blank")
    /\ Continue
    /\ UNCHANGED <<output, lineinfo, current_block, blocks, otherVars>>

\* if line[0] == '(' or line.startswith("Raw bytecode"): continue
P_Skipped ==
    /\ AtKind("skipped")
    /\ Continue
    /\ UNCHANGED <<output, lineinfo, current_block, blocks, otherVars>>

\* if line.startswith("  "): a row "  bc=x line=y"
P_LineInfo ==
    /\ AtKind("lineinfo")
    /\ LET parts == SplitWs(Strip(Line))
       IN  IF FieldErr(parts, 1) # "" THEN Raise(FieldErr(parts, 1)) /\ lineinfo' = lineinfo
           ELSE IF FieldErr(parts, 2) # "" THEN Raise(FieldErr(parts, 2)) /\ lineinfo' = lineinfo
           ELSE Continue /\ lineinfo' = SetLine(lineinfo, Field(parts, 1), Field(parts, 2))
    /\ UNCHANGED <<output, current_block, blocks, otherVars>>

\* if line[0] == ' ': continue
P_Indented ==
    /\ AtKind("indented")
    /\ Continue
    /\ UNCHANGED <<output, lineinfo, current_block, blocks, otherVars>>

\* if line.startswith("File"): store the block in progress, begin the next
P_File ==
    /\ AtKind("file")
    /\ blocks' = IF current_block # <<>> THEN StoreBlock(blocks, current_block[1]) ELSE blocks
    /\ LET line == Strip(Line)
       IN  IF HeaderOk(line)
           THEN /\ Continue
                /\ current_block' = <<CodeBlock(block_name(line), source_name(line),
                                                block_desc(line), <<>>, <<>>)>>
           ELSE Raise("IndexError") /\ current_block' = current_block
    /\ UNCHANGED <<output, lineinfo, otherVars>>

\* if line.startswith("arg names:"): current_block.set_args(line.split()[2:])
P_ArgNames ==
    /\ AtKind("args")
    /\ IF current_block = <<>>
       THEN Raise("AttributeError") /\ current_block' = current_block
       ELSE /\ Continue
            /\ current_block' = <<[current_block[1] EXCEPT
                                     !.args = From(SplitWs(Strip(Line)), 2)]>>
    /\ UNCHANGED <<output, lineinfo, blocks, otherVars>>

\* except ValueError: the line goes on the operands of the last instruction
P_Continuation ==
    /\ AtKind("continuation")
    /\ IF current_block = <<>>
       THEN Raise("AttributeError") /\ current_block' = current_block
       ELSE IF current_block[1].code = <<>>
       THEN Raise("IndexError") /\ current_block' = current_block
       ELSE /\ Continue
            /\ current_block' =
                 <<[current_block[1] EXCEPT
                      !.code[Len(current_block[1].code)].operands =
                         @ \o <<"\n">> \o Strip(Line)]>>
    /\ UNCHANGED <<output, lineinfo, blocks, otherVars>>

\* a row "offset OPCODE operands": current_block.add_bytecode(Bytecode(...))
P_Instruction ==
    /\ AtKind("instruction")
    /\ LET parts == SplitWs(Strip(Line))
           num == IntOf(parts[1])
           lineno == IF num \in DOMAIN lineinfo THEN <<lineinfo[num]>> ELSE <<>>
       IN  IF Len(parts) < 2
           THEN Raise("IndexError") /\ current_block' = current_block
           ELSE IF current_block = <<>>
           THEN Raise("AttributeError") /\ current_block' = current_block
           ELSE /\ Continue
                /\ current_block' =
                     <<add_bytecode(current_block[1],
                                    Bytecode(num, parts[2], Join(From(parts, 2), " "),
                                             lineno))>>
    /\ UNCHANGED <<output, lineinfo, blocks, otherVars>>

\* the loop has taken every line: the store after the loop
P_End ==
    /\ status = "disassemble"
    /\ lno = Len(output)
    /\ blocks' = AfterLoop(blocks, current_block)
    /\ status' = "parsed"
    /\ UNCHANGED <<output, lno, lineinfo, current_block, err, otherVars>>

(***************************************************************************)
(* The outputs of the disassembler explored: for each code block a File    *)
(* line, the raw bytecode, the argument names, the state sizes, the line   *)
(* information rows and the instruction rows; then the end of the output   *)
(* or the memory statistics.                                               *)
(***************************************************************************)
\* the code blocks of an output
MaxBlocks == 2

\* the instruction rows of a code block
MaxRows == 2

Header(name, desc) ==
    <<"F", "i", "l", "e", " ", "m", ".", "p", "y", ",", " ", "c", "o", "d",
      "e", " ", "b", "l", "o", "c", "k", " ", "'">> \o name
      \o <<"'", " ", "(", "d", "e", "s", "c", "r", "i", "p", "t", "o", "r", ":", " ">>
      \o desc \o <<",", " ", "b", "y", "t", "e", "c", "o", "d", "e", " ", "@">> \o desc
      \o <<" ", "4", " ", "b", "y", "t", "e", "s", ")">>

RawLine ==
    RawText \o <<" ", "(", "c", "o", "d", "e", "_", "i", "n", "f", "o", "_", "s", "i",
                 "z", "e", "=", "2", ",", " ", "b", "y", "t", "e", "c", "o", "d", "e",
                 "_", "s", "i", "z", "e", "=", "4", ")", ":">>

HexLine == <<" ", "1", "0", " ", "0", "2">>

\* the module has no arguments, a function the argument x
ArgLine(k) == IF k = 1 THEN ArgNamesText ELSE ArgNamesText \o <<" ", "x">>

StateLine == <<"(", "N", "_", "S", "T", "A", "T", "E", " ", "2", ")">>

MemLine == MemText \o <<":", " ", "t", "o", "t", "a", "l", "=", "1">>

GcLine == <<"G", "C", ":", " ", "t", "o", "t", "a", "l", "=", "1">>

LineRow(bc, line) ==
    <<" ", " ", "b", "c", "=">> \o StrOfNat(bc) \o <<" ", "l", "i", "n", "e", "=">>
      \o StrOfNat(line)

Pad2(n) == IF n < 10 THEN <<"0">> \o StrOfNat(n) ELSE StrOfNat(n)

\* the text of the i-th instruction of a block, i = 0, 1, ...
RowText(i) ==
    IF i % 2 = 0 THEN <<"L", "O", "A", "D", "_", "N", "A", "M", "E", " ", "a">>
    ELSE <<"R", "E", "T", "U", "R", "N", "_", "V", "A", "L", "U", "E">>

InstrRow(i) == Pad2(2 * i) \o <<" ">> \o RowText(i)

\* a string constant with a newline in it, printed on two lines
StringRows ==
    << <<"0", "0", " ", "L", "O", "A", "D", "_", "C", "O", "N", "S", "T", "_", "S", "T",
         "R", "I", "N", "G", " ", "'", "a">>,
       <<"b", "'">> >>

\* the name and the descriptor of the k-th code block of an output
NameOf(k) == IF k = 1 THEN ModuleName ELSE <<"f">> \o StrOfNat(k)

DescOf(k) == <<"d">> \o StrOfNat(k)

\* the source line of the i-th instruction of the k-th code block
LineOf(k, i) == (k - 1) * (MaxRows + 1) + i + 1

\* the text of the k-th code block under the descriptor desc: n instruction
\* rows, line information for the first m of them, the first row a string
\* constant on two lines when c
Section(k, desc, n, m, c) ==
    <<Header(NameOf(k), desc), RawLine, HexLine, ArgLine(k), StateLine>>
      \o [i \in 1..m |-> LineRow(2 * (i - 1), LineOf(k, i - 1))]
      \o (IF c THEN StringRows ELSE <<>>)
      \o [i \in 1..(IF c THEN n - 1 ELSE n) |-> InstrRow(IF c THEN i ELSE i - 1)]

SectionsOf(k, desc) ==
    UNION {{Section(k, desc, n, m, FALSE) : m \in {0, 1, n}} : n \in 0..MaxRows}
      \cup {Section(k, desc, n, n, TRUE) : n \in 1..MaxRows}

\* the texts of the code blocks 1..k, each of one instruction on one line
RECURSIVE FixedBlocks(_)
FixedBlocks(k) ==
    IF k <= 0 THEN <<>> ELSE FixedBlocks(k - 1) \o Section(k, DescOf(k), 1, 1, FALSE)

\* the texts of b code blocks with distinct descriptors, the last two varied
Bodies(b) ==
    IF b = 0 THEN {<<>>}
    ELSE IF b = 1 THEN SectionsOf(1, DescOf(1))
    ELSE {FixedBlocks(b - 2) \o x \o y :
            x \in SectionsOf(b - 1, DescOf(b - 1)), y \in SectionsOf(b, DescOf(b))}

\* the same, the last two code blocks under one descriptor
DupBodies(b) ==
    {FixedBlocks(b - 2) \o x \o y :
       x \in SectionsOf(b - 1, DescOf(b - 1)), y \in SectionsOf(b, DescOf(b - 1))}

\* what follows the code blocks: nothing, the empty string that split("\n")
\* leaves after the last newline, or the memory statistics
Endings == {<<>>, << <<>> >>, <<MemLine, GcLine>>}

\* outputs that do not begin with a File line
Headless == {<<InstrRow(0)>>, <<ArgLine(1)>>, <<GcLine>>, <<HexLine>>}

Dumps ==
    {x \o e : x \in UNION {Bodies(b) : b \in 0..MaxBlocks}
                      \cup UNION {DupBodies(b) : b \in 2..MaxBlocks},
              e \in Endings}
      \cup Headless

InitP ==
    /\ files = <<>>
    /\ fidx = 0
    /\ outs = <<>>
    /\ status = "disassemble"
    /\ blocks = <<>>
    /\ stack = <<>>
    /\ frames = <<>>
    /\ heap = <<>>
    /\ nid = 0
    /\ err = ""
    /\ result = NoResult
    /\ DecIdle
    /\ output \in Dumps
    /\ lno = 0
    /\ lineinfo = <<>>
    /\ current_block = <<>>

NextP ==
    \/ P_Mem
    \/ P_Blank
    \/ P_Skipped
    \/ P_LineInfo
    \/ P_Indented
    \/ P_File
    \/ P_ArgNames
    \/ P_Continuation
    \/ P_Instruction
    \/ P_End

SpecP == InitP /\ [][NextP]_vars

(***************************************************************************)
(* Claims about the parser, checked under SpecP.                           *)
(***************************************************************************)
\* the index of the first line that begins with mem, Len(output) + 1 if none:
\* the loop takes the lines before it
FirstMem ==
    LET ms == {i \in 1..Len(output) : Kind(output[i]) = "mem"}
    IN  IF ms = {} THEN Len(output) + 1
        ELSE CHOOSE i \in ms : \A j \in ms : i <= j

\* the File lines the loop takes, and the descriptor of one
Headers == {i \in 1..(FirstMem - 1) : Kind(output[i]) = "file"}

HeaderDesc(h) == block_desc(Strip(output[h]))

DistinctDescriptors ==
    \A g, h \in Headers : g # h => HeaderDesc(g) # HeaderDesc(h)

\* the index of the line that ends the code block of the File line h
NextHeader(h) ==
    LET later == {j \in Headers : j > h}
    IN  IF later = {} THEN FirstMem
        ELSE CHOOSE j \in later : \A k \in later : j <= k

\* the indices, in order, of the lines of kind k in the code block of h
LinesOf(h, k) ==
    SelectSeq([i \in 1..(NextHeader(h) - h - 1) |-> h + i],
              LAMBDA i : Kind(output[i]) = k)

\* the fields of an instruction row and of a line information row
RowParts(i) == SplitWs(Strip(output[i]))

RowOffset(i) == IntOf(RowParts(i)[1])

RowOperands(i) == Join(From(RowParts(i), 2), " ")

\* the line that the line information rows of the code block of h give the
\* offset o: that of the last such row, none without one
OwnLine(h, o) ==
    LET rows == LinesOf(h, "lineinfo")
        hits == {j \in 1..Len(rows) : Field(RowParts(rows[j]), 1) = o}
    IN  IF hits = {} THEN <<>>
        ELSE <<Field(RowParts(rows[CHOOSE j \in hits : \A k \in hits : k <= j]), 2)>>

\* C22 (as claimed): line information is per code block.  After parsing an
\* output with distinct descriptors, the lineno of every instruction of
\* every stored code block is the line that a line information row of its
\* own code block gives its offset, and is None when its own code block has
\* no row for the offset: a row of an earlier code block never gives a
\* lineno to an instruction of a later one.
C22_LinePerBlock ==
    (status = "parsed" /\ DistinctDescriptors) =>
      \A h \in Headers :
        HasBlock(blocks, HeaderDesc(h)) =>
          LET code == BlockOf(blocks, HeaderDesc(h)).code
          IN  \A j \in 1..Len(code) : code[j].lineno = OwnLine(h, code[j].offset)

\* C23: the parser stores every code block it starts.  After parsing an
\* output with distinct descriptors the block map has one entry per File
\* line taken, under that line's descriptor and in the order of the File
\* lines, the last one included both when the output ends and when a line
\* beginning with mem ends the loop; the entry holds the instruction rows
\* between its File line and the next, in order.
C23_StoresEveryBlock ==
    (status = "parsed" /\ DistinctDescriptors) =>
      /\ Len(blocks) = Cardinality(Headers)
      /\ \A h \in Headers :
           /\ HasBlock(blocks, HeaderDesc(h))
           /\ \A g \in Headers :
                g < h => \E a, b \in 1..Len(blocks) :
                           /\ a < b
                           /\ blocks[a].desc = HeaderDesc(g)
                           /\ blocks[b].desc = HeaderDesc(h)
           /\ LET code == BlockOf(blocks, HeaderDesc(h)).code
                  rows == LinesOf(h, "instruction")
              IN  /\ Len(code) = Len(rows)
                  /\ \A j \in 1..Len(rows) :
                       /\ code[j].offset = RowOffset(rows[j])
                       /\ code[j].opcode = RowParts(rows[j])[2]
                       /\ StartsWith(code[j].operands, RowOperands(rows[j]))

\* parsing ended at a line beginning with mem, after two code blocks, the
\* last of them with an instruction row
C23_Witness ==
    /\ status = "parsed"
    /\ DistinctDescriptors
    /\ FirstMem <= Len(output)
    /\ Cardinality(Headers) >= 2
    /\ \A h \in Headers : NextHeader(h) = FirstMem => LinesOf(h, "instruction") # <<>>
    /\ Len(blocks) >= 2

====
